---- MODULE Spec2Model ----
(***************************************************************************)
(* Case key management, custody ledger and artifact store of               *)
(* mobile-dig-scope: ForensicCrypto (src/lib/crypto.ts), ForensicDatabase  *)
(* (src/lib/database.ts), SecureKeyManager and TargetAcquisitionEngine     *)
(* (src/lib/target-acquisition.ts), ReportGenerator and AcquisitionEngine  *)
(* (src/lib/reports.ts).                                                   *)
(*                                                                         *)
(* Every JavaScript value is a tagged tuple whose first element names its  *)
(* kind, so that any two values can be compared: <<"str", s>> a string,    *)
(* <<"undefined">>, <<"uuid", n>> a crypto.randomUUID() result,            *)
(* <<"iso", t>> an ISO timestamp, and the results of the cryptographic     *)
(* primitives as free constructors over their arguments (so PBKDF2, SHA-256 *)
(* and HMAC are deterministic and injective, nothing more).                *)
(***************************************************************************)
EXTENDS Integers, Sequences, FiniteSets, TLC

VARIABLES
    db,            \* ForensicDatabase.db is set (initialize() has resolved)
    cases,         \* object store 'cases':       id -> ForensicCase
    artifacts,     \* object store 'artifacts':   id -> Artifact
    custodyLogs,   \* object store 'custodyLogs': id -> CustodyLog
    logOrder,      \* history: the entries put into custodyLogs, in order, each
                   \*   with the hmacKey createCustodyLog was given for it
    origin,        \* history: case id -> what createCase derived for it
    keyCache,      \* SecureKeyManager.keyCache: case id -> {key, timestamp}
    now,           \* Date.now()
    isRunning,     \* TargetAcquisitionEngine.isRunning
    connected,     \* ADBBridge connection of the engine is open
    stage,         \* where each engine's startLogicalAcquisition stands
    nUpdates,       \* history: the number of updateCase calls that stored a record
    user,          \* AuthProvider: the user state (the examiner logged in, or null)
    sessions,      \* AuthDatabase object store 'sessions': userId -> session
    adbInput,      \* the string a caller is about to hand to the ADBBridge
    adbTrace,      \* history: what the last ADBBridge call validated and sent, in order
    run,           \* the startLogicalAcquisition call of the target engine that is under way
    files,         \* Filesystem (Directory.Documents): path -> what writeFile stored there
    derives,       \* the deriveKeyForCase calls that wait for database.getCase
    lastOp         \* the operation that made the last step: its arguments, its
                   \*   result and the hmacKey argument of the createCustodyLog
                   \*   call it made

vars == <<db, cases, artifacts, custodyLogs, logOrder, origin, keyCache, now,
          isRunning, connected, stage, nUpdates,
          user, sessions,
          adbInput, adbTrace,
          run,
          files,
          derives, lastOp>>

----------------------------------------------------------------------------
(* Bounds of the model *)

MaxCases == 2
MaxLogs == 2
MaxArtifacts == 1
MaxTicks == 2
MaxUpdates == 1
MaxTail == 3
MaxCalls == 2

(* Inputs *)

Passwords == {<<"pw", 1>>, <<"pw", 2>>}
Salts == {<<"salt", n>> : n \in 1..MaxCases}
CaseIds == {<<"uuid", n>> : n \in 1..MaxCases}
LogIds == {<<"uuid", n>> : n \in 1..MaxLogs}
ArtifactIds == {<<"uuid", n>> : n \in 1..MaxArtifacts}

Undefined == <<"undefined">>
Str(s) == <<"str", s>>
Err(msg) == <<"error", msg>>
ISO(t) == <<"iso", t>>
Bool(b) == <<"bool", b>>

IsError(v) == v[1] = "error"

\* lastOp.hmacKey of an operation that made no createCustodyLog call.
NoCall == <<"none">>

Null == <<"null">>

\* No deriveKeyForCase call waits in this place.
NoDerive == <<"none">>

\* No startLogicalAcquisition call of the target engine is under way.
NoRun ==
    [at |-> "idle", caseId |-> Null, targetDevice |-> Null, password |-> Null,
     stopped |-> FALSE]

\* No string is waiting for the ADBBridge.
NoInput == <<>>

----------------------------------------------------------------------------
(* ForensicCrypto *)

\* CryptoJS builds its HMAC from the key's sigBytes: a key that is not a
\* string (undefined) makes HmacSHA256 and PBKDF2 throw a TypeError.
CryptoThrows(key) == key = Undefined

DeriveKey(password, salt) == <<"key", password, salt>>

CalculateSHA256(data) == <<"sha256", data>>

CalculateMD5(data) == <<"md5", data>>

CalculateHMAC(data, key) == <<"hmac", data, key>>

VerifyHMAC(data, key, signature) == CalculateHMAC(data, key) = signature

HMAC_KEY_LABEL == Str("hmac_key_derivation")

\* The signing key createCase and addArtifact derive from a case key.
SigningKey(encryptionKey) == CalculateHMAC(HMAC_KEY_LABEL, encryptionKey)

----------------------------------------------------------------------------
(* Object stores (IndexedDB, keyPath 'id') *)

EmptyStore == <<>>

\* The least of a set of numbered values.
Least(S) == {i \in S : \A j \in S : i[2] <= j[2]}

Put(store, rec) ==
    [k \in DOMAIN store \cup {rec.id} |-> IF k = rec.id THEN rec ELSE store[k]]

\* An id generator that can repeat an id some record already has.
RepeatingUUID(store, space) == space

\* crypto.randomUUID(): a value no record of the store has as its id.
RandomUUID(store, space) == space \ DOMAIN store

\* JSON.stringify of an object: its properties in key order, those whose
\* value is undefined left out.
JSONStringify(obj, keys) ==
    <<"json", SelectSeq([i \in 1..Len(keys) |-> <<keys[i], obj[keys[i]]>>],
                        LAMBDA p : p[2] # Undefined)>>

----------------------------------------------------------------------------
(* ForensicDatabase *)

Has(store, key) == key \in DOMAIN store

\* A JavaScript value that is false in a condition (!value).
Falsy(v) == v \in {Undefined, Str("")}

RECURSIVE SortedIds(_)
\* The ids of a set in ascending key order, as an IndexedDB cursor yields them.
SortedIds(ids) ==
    IF ids = {} THEN <<>>
    ELSE LET least == CHOOSE i \in ids : \A j \in ids : i[2] <= j[2]
         IN  <<least>> \o SortedIds(ids \ {least})

\* index.getAll(value): the records whose index key equals value, in the
\* order of the index, which is by index key and then by primary key.
GetDataByIndex(store, indexName, value) ==
    LET ids == SortedIds({k \in DOMAIN store : store[k][indexName] = value})
    IN  [i \in 1..Len(ids) |-> store[ids[i]]]

\* Which put request of a call fails (request.onerror), if any.
PutFailures == {"none", "cases", "artifacts", "custodyLogs"}

\* storeData: the store after put(data), or the rejection.
StoreData(store, data, requestOk) ==
    IF ~db THEN [ok |-> FALSE, store |-> store, ret |-> Err("Database not initialized")]
    ELSE IF ~requestOk THEN [ok |-> FALSE, store |-> store, ret |-> Err("request.error")]
    ELSE [ok |-> TRUE, store |-> Put(store, data), ret |-> Undefined]

\* Key order of the logEntry object literal of createCustodyLog.
CustodyLogKeys ==
    <<"id", "caseId", "action", "examiner", "timestamp", "details",
      "deviceIdentifier", "hmacSignature">>

SignedFields ==
    {"id", "caseId", "action", "examiner", "timestamp", "details", "deviceIdentifier"}

\* A dataToSign that leaves the details of the entry out.
DataToSignWithoutDetails(log) ==
    JSONStringify([log EXCEPT !.hmacSignature = Undefined],
                  SelectSeq(CustodyLogKeys, LAMBDA k : k # "details"))

\* JSON.stringify({...log, hmacSignature: undefined})
DataToSign(log) ==
    JSONStringify([log EXCEPT !.hmacSignature = Undefined], CustodyLogKeys)

\* A createCustodyLog that puts the entry as first built, hmacSignature '',
\* and puts it again once signed.
CreateCustodyLogCallInTwoPuts(store, logData, hmacKey, id, timestamp, requestOk) ==
    LET logEntry == [id |-> id,
                     caseId |-> logData.caseId,
                     action |-> logData.action,
                     examiner |-> logData.examiner,
                     timestamp |-> timestamp,
                     details |-> logData.details,
                     deviceIdentifier |-> logData.deviceIdentifier,
                     hmacSignature |-> Str("")]
        first == StoreData(store, logEntry, requestOk)
        signed == [logEntry EXCEPT
                      !.hmacSignature = CalculateHMAC(DataToSign(logEntry), hmacKey)]
    IN  IF ~first.ok THEN [ok |-> FALSE, store |-> store, ret |-> first.ret]
        ELSE IF CryptoThrows(hmacKey)
        THEN [ok |-> FALSE, store |-> first.store, ret |-> Err("TypeError")]
        ELSE [ok |-> TRUE, store |-> Put(first.store, signed), ret |-> signed]

\* createCustodyLog(logData, hmacKey) with id = crypto.randomUUID() and
\* timestamp = new Date().toISOString(): the custodyLogs store afterwards and
\* the entry returned, or the error thrown.
CreateCustodyLogCall(store, logData, hmacKey, id, timestamp, requestOk) ==
    LET logEntry == [id |-> id,
                     caseId |-> logData.caseId,
                     action |-> logData.action,
                     examiner |-> logData.examiner,
                     timestamp |-> timestamp,
                     details |-> logData.details,
                     deviceIdentifier |-> logData.deviceIdentifier,
                     hmacSignature |-> Str("")]
        dataToSign == DataToSign(logEntry)
    IN  IF CryptoThrows(hmacKey)
        THEN [ok |-> FALSE, store |-> store, ret |-> Err("TypeError")]
        ELSE LET signed == [logEntry EXCEPT
                               !.hmacSignature = CalculateHMAC(dataToSign, hmacKey)]
                 stored == StoreData(store, signed, requestOk)
             IN  [ok |-> stored.ok, store |-> stored.store,
                  ret |-> IF stored.ok THEN signed ELSE stored.ret]

\* verifyCustodyLogIntegrity(log, hmacKey)
VerifyCustodyLogIntegrityCall(log, hmacKey) ==
    VerifyHMAC(DataToSign(log), hmacKey, log.hmacSignature)

\* ForensicCrypto.generateSalt(): 32 random bytes, taken to differ from the
\* salt of every stored case.
GenerateSalt == Salts \ {cases[c].encryptionSalt : c \in DOMAIN cases}

\* The caseData the case wizard passes: the form without password and
\* confirmPassword.
CaseDataInputs ==
    {[name |-> Str("case"), examiner |-> Str("examiner"), status |-> Str("active")]}

\* A forensicCase object literal that keeps the derived key with the case.
NewForensicCaseWithKey(id, caseData, timestamp, salt, passwordVerificationHash, encryptionKey) ==
    [id |-> id,
     name |-> caseData.name,
     examiner |-> caseData.examiner,
     status |-> caseData.status,
     createdAt |-> timestamp,
     updatedAt |-> timestamp,
     encryptionSalt |-> salt,
     passwordVerificationHash |-> passwordVerificationHash,
     encryptionKey |-> encryptionKey]

\* The forensicCase object literal of createCase.
NewForensicCase(id, caseData, timestamp, salt, passwordVerificationHash, encryptionKey) ==
    [id |-> id,
     name |-> caseData.name,
     examiner |-> caseData.examiner,
     status |-> caseData.status,
     createdAt |-> timestamp,
     updatedAt |-> timestamp,
     encryptionSalt |-> salt,
     passwordVerificationHash |-> passwordVerificationHash]

Initialize ==
    /\ ~db
    /\ db' = TRUE
    /\ lastOp' = [op |-> "initialize", hmacKey |-> NoCall,
                  arg |-> Undefined, ret |-> Undefined]
    /\ UNCHANGED <<derives, files, run, adbInput, adbTrace, user, sessions, cases, artifacts,
                   custodyLogs, logOrder, origin, keyCache, now, isRunning, connected,
                   stage, nUpdates>>

\* createCase(caseData, password).  logId is the crypto.randomUUID() of its
\* custody entry.  Which unused id the case gets, and which unused salt,
\* makes no difference to any operation: the least is taken.
CreateCase(caseData, password, logId) ==
    \E id \in Least(RandomUUID(cases, CaseIds)), salt \in Least(GenerateSalt),
       fail \in PutFailures :
        LET encryptionKey == DeriveKey(password, salt)
            passwordVerificationHash == CalculateSHA256(encryptionKey)
            forensicCase == NewForensicCase(id, caseData, ISO(now), salt,
                                            passwordVerificationHash, encryptionKey)
            stored == StoreData(cases, forensicCase, fail # "cases")
            hmacKey == SigningKey(encryptionKey)
            logged == CreateCustodyLogCall(custodyLogs,
                          [caseId |-> id,
                           action |-> Str("case_created"),
                           examiner |-> caseData.examiner,
                           details |-> <<"text", "Case created with AES-256 encryption",
                                         caseData.name>>,
                           deviceIdentifier |-> Undefined],
                          hmacKey, logId, ISO(now), fail # "custodyLogs")
        IN  /\ fail \in {"none", "cases", "custodyLogs"}
            /\ cases' = stored.store
            /\ origin' = IF stored.ok
                         THEN [c \in DOMAIN origin \cup {id} |->
                                  IF c = id
                                  THEN [password |-> password, salt |-> salt,
                                        hash |-> passwordVerificationHash]
                                  ELSE origin[c]]
                         ELSE origin
            /\ custodyLogs' = IF stored.ok THEN logged.store ELSE custodyLogs
            /\ logOrder' = IF stored.ok /\ logged.ok
                           THEN Append(logOrder, [id |-> logId, hmacKey |-> hmacKey])
                           ELSE logOrder
            /\ lastOp' = [op |-> "createCase", hmacKey |-> IF stored.ok THEN hmacKey ELSE NoCall,
                          arg |-> <<id, password>>,
                          ret |-> IF ~stored.ok THEN stored.ret
                                  ELSE IF ~logged.ok THEN logged.ret
                                  ELSE <<"created", forensicCase, encryptionKey>>]
            /\ UNCHANGED <<derives, files, run, adbInput, adbTrace, user, sessions, db, artifacts,
                           keyCache, now, isRunning, connected, stage, nUpdates>>

\* The updates a caller passes to updateCase (Partial<ForensicCase>).
UpdateInputs ==
    {[status |-> Str("completed")],
     [encryptionSalt |-> <<"salt", 0>>],
     [encryptionSalt |-> Str("")],
     [passwordVerificationHash |-> Str("")]}

\* {...existingCase, ...updates, updatedAt}
Merge(existing, updates, updatedAt) ==
    [f \in DOMAIN existing \cup DOMAIN updates \cup {"updatedAt"} |->
        IF f = "updatedAt" THEN updatedAt
        ELSE IF f \in DOMAIN updates THEN updates[f]
        ELSE existing[f]]

UpdateCase(id, updates) ==
    \E requestOk \in BOOLEAN :
        LET stored == StoreData(cases, Merge(cases[id], updates, ISO(now)), requestOk)
        IN  /\ nUpdates < MaxUpdates
            /\ cases' = IF db /\ Has(cases, id) THEN stored.store ELSE cases
            /\ nUpdates' = IF db /\ Has(cases, id) /\ stored.ok
                          THEN nUpdates + 1 ELSE nUpdates
            /\ lastOp' = [op |-> "updateCase", hmacKey |-> NoCall,
                          arg |-> <<id, updates>>,
                          ret |-> IF ~db THEN Err("Database not initialized")
                                  ELSE IF ~Has(cases, id) THEN Err("Case not found")
                                  ELSE stored.ret]
            /\ UNCHANGED <<derives, files, run, adbInput, adbTrace, user, sessions, db, artifacts,
                           custodyLogs, logOrder, origin, keyCache, now, isRunning,
                           connected, stage>>

\* The artifact records the acquisition code builds for a case: digests and
\* size of the plaintext, the path of the encrypted file, no iv property.
ArtifactInputs(caseId) ==
    {[caseId |-> caseId,
      type |-> Str("contact"),
      name |-> Str("Contacts Database"),
      filePath |-> Str("evidence/contacts.json"),
      sha256 |-> CalculateSHA256(Str("contacts")),
      md5 |-> CalculateMD5(Str("contacts")),
      size |-> <<"num", 8>>,
      isEncrypted |-> Bool(TRUE),
      metadata |-> Str("{count}")]}

\* {id: crypto.randomUUID(), ...artifact, createdAt}
NewArtifact(id, artifact, createdAt) ==
    [f \in DOMAIN artifact \cup {"id", "createdAt"} |->
        IF f = "id" THEN id
        ELSE IF f = "createdAt" THEN createdAt
        ELSE artifact[f]]

\* addArtifact(artifact, encryptionKey), called by op.  logId is the
\* crypto.randomUUID() of its custody entry; the artifact gets the least
\* unused id.  It touches every store but the file system.
AddArtifactCall(op, artifact, encryptionKey, logId) ==
    \E id \in Least(RandomUUID(artifacts, ArtifactIds)), fail \in PutFailures :
        LET fullArtifact == NewArtifact(id, artifact, ISO(now))
            stored == StoreData(artifacts, fullArtifact, fail # "artifacts")
            found == Has(cases, artifact.caseId)
            logged ==
                IF CryptoThrows(encryptionKey)
                THEN [ok |-> FALSE, store |-> custodyLogs, ret |-> Err("TypeError")]
                ELSE CreateCustodyLogCall(custodyLogs,
                         [caseId |-> artifact.caseId,
                          action |-> Str("artifact_added"),
                          examiner |-> cases[artifact.caseId].examiner,
                          details |-> <<"text", "Artifact added", artifact.name,
                                        artifact.type>>,
                          deviceIdentifier |-> Undefined],
                         SigningKey(encryptionKey), logId, ISO(now),
                         fail # "custodyLogs")
        IN  /\ fail \in {"none", "artifacts", "custodyLogs"}
            /\ artifacts' = stored.store
            /\ custodyLogs' = IF stored.ok /\ found THEN logged.store ELSE custodyLogs
            /\ logOrder' = IF stored.ok /\ found /\ logged.ok
                           THEN Append(logOrder, [id |-> logId,
                                                  hmacKey |-> SigningKey(encryptionKey)])
                           ELSE logOrder
            /\ lastOp' = [op |-> op,
                          hmacKey |-> IF stored.ok /\ found /\ ~CryptoThrows(encryptionKey)
                                      THEN SigningKey(encryptionKey) ELSE NoCall,
                          arg |-> <<artifact.caseId, encryptionKey>>,
                          ret |-> IF ~stored.ok THEN stored.ret
                                  ELSE IF found /\ ~logged.ok THEN logged.ret
                                  ELSE <<"artifact", fullArtifact>>]
            /\ UNCHANGED <<derives, run, adbInput, adbTrace, user, sessions, db, cases, origin,
                           keyCache, now, isRunning, connected, stage, nUpdates>>

AddArtifact(artifact, encryptionKey, logId) ==
    /\ AddArtifactCall("addArtifact", artifact, encryptionKey, logId)
    /\ UNCHANGED files

\* The logData of a direct call of createCustodyLog.
LogDataInputs ==
    {[caseId |-> c,
      action |-> Str("report_generated"),
      examiner |-> Str("examiner"),
      details |-> Str("Report generated"),
      deviceIdentifier |-> Str("device")] : c \in CaseIds}

\* The keys a caller working on a case can hold for it: none, the one
\* createCase returned, or the one getKeyForCustodyLog hands out from the cache.
CallerKeys(caseId) ==
    {Undefined}
        \cup {DeriveKey(origin[c].password, origin[c].salt) :
                   c \in DOMAIN origin \cap {caseId}}
        \cup {keyCache[c].key : c \in DOMAIN keyCache \cap {caseId}}

\* What such a caller can pass as hmacKey: a case key it holds or the signing
\* key derived from it.
CallerHmacKeys(caseId) ==
    CallerKeys(caseId) \cup {SigningKey(k) : k \in CallerKeys(caseId) \ {Undefined}}

CreateCustodyLog(logData, hmacKey, id) ==
    \E requestOk \in BOOLEAN :
        LET logged == CreateCustodyLogCall(custodyLogs, logData, hmacKey, id, ISO(now),
                                           requestOk)
        IN  /\ custodyLogs' = logged.store
            /\ logOrder' = IF logged.ok
                           THEN Append(logOrder, [id |-> id, hmacKey |-> hmacKey])
                           ELSE logOrder
            /\ lastOp' = [op |-> "createCustodyLog", hmacKey |-> hmacKey,
                          arg |-> <<logData, hmacKey>>,
                          ret |-> IF logged.ok THEN <<"entry", logged.ret>>
                                  ELSE logged.ret]
            /\ UNCHANGED <<derives, files, run, adbInput, adbTrace, user, sessions, db, cases,
                           artifacts, origin, keyCache, now, isRunning, connected,
                           stage, nUpdates>>

\* getCustodyLogs(caseId) = getDataByIndex('custodyLogs', 'caseId', caseId)
GetCustodyLogsCall(caseId) == GetDataByIndex(custodyLogs, "caseId", caseId)

GetCustodyLogs(caseId) ==
    /\ lastOp' = [op |-> "getCustodyLogs", hmacKey |-> NoCall,
                  arg |-> caseId,
                  ret |-> IF ~db THEN Err("Database not initialized")
                          ELSE <<"list", GetCustodyLogsCall(caseId)>>]
    /\ UNCHANGED <<derives, files, run, adbInput, adbTrace, user, sessions, db, cases, artifacts,
                   custodyLogs, logOrder, origin, keyCache, now, isRunning, connected,
                   stage, nUpdates>>

\* What a stored entry may have been changed into before it is handed to
\* verifyCustodyLogIntegrity: one signed field given another value.
Altered(field, value) ==
    IF field = "deviceIdentifier"
    THEN (IF value = Undefined THEN Str("device") ELSE Undefined)
    ELSE <<"altered", value>>

Tampered(log) ==
    {[log EXCEPT ![f] = Altered(f, log[f])] : f \in SignedFields}

\* verifyCustodyLogIntegrity(log, hmacKey), where log is the stored entry
\* `of` as read, or with one signed field altered.  lastOp notes `of` and
\* whether the call before verified an altered copy of the same entry.
VerifyCustodyLogIntegrity(log, hmacKey, of) ==
    /\ lastOp' = [op |-> "verifyCustodyLogIntegrity", hmacKey |-> NoCall,
                  arg |-> <<log, hmacKey, of,
                            /\ lastOp.op = "verifyCustodyLogIntegrity"
                            /\ lastOp.arg[3] = of
                            /\ lastOp.arg[1] # custodyLogs[of]
                            /\ lastOp.arg[2] = hmacKey>>,
                  ret |-> IF CryptoThrows(hmacKey) THEN Err("TypeError")
                          ELSE Bool(VerifyCustodyLogIntegrityCall(log, hmacKey))]
    /\ UNCHANGED <<derives, files, run, adbInput, adbTrace, user, sessions, db, cases, artifacts,
                   custodyLogs, logOrder, origin, keyCache, now, isRunning, connected,
                   stage, nUpdates>>

----------------------------------------------------------------------------
(* ReportGenerator *)

\* {...log, isVerified: isValid}
WithVerified(log, isValid) ==
    [f \in DOMAIN log \cup {"isVerified"} |->
        IF f = "isVerified" THEN Bool(isValid) ELSE log[f]]

\* generateReport(caseId, password): the ReportData, or the error thrown.
GenerateReportCall(caseId, password) ==
    IF ~db THEN Err("Database not initialized")
    ELSE IF ~Has(cases, caseId) THEN Err("Case not found")
    ELSE IF CryptoThrows(password) THEN Err("TypeError")
    ELSE LET forensicCase == cases[caseId]
             encryptionKey == DeriveKey(password, forensicCase.encryptionSalt)
             verificationHash == CalculateSHA256(encryptionKey)
             logs == GetCustodyLogsCall(caseId)
         IN  IF verificationHash # forensicCase.passwordVerificationHash
             THEN Err("Invalid password")
             ELSE <<"report", forensicCase,
                    GetDataByIndex(artifacts, "caseId", caseId),
                    [i \in 1..Len(logs) |->
                        WithVerified(logs[i],
                            VerifyCustodyLogIntegrityCall(logs[i], encryptionKey))]>>

GenerateReport(caseId, password) ==
    /\ lastOp' = [op |-> "generateReport", hmacKey |-> NoCall,
                  arg |-> <<caseId, password>>,
                  ret |-> GenerateReportCall(caseId, password)]
    /\ UNCHANGED <<derives, files, run, adbInput, adbTrace, user, sessions, db, cases, artifacts,
                   custodyLogs, logOrder, origin, keyCache, now, isRunning, connected,
                   stage, nUpdates>>

----------------------------------------------------------------------------
(* SecureKeyManager *)

CACHE_TTL == 30 * 60 * 1000

\* A hit test that still serves an entry whose age is exactly CACHE_TTL.
CacheHitAtTTL(cache, caseId, time) ==
    Has(cache, caseId) /\ time - cache[caseId].timestamp <= CACHE_TTL

\* cached && Date.now() - cached.timestamp < this.CACHE_TTL
CacheHit(cache, caseId, time) ==
    Has(cache, caseId) /\ time - cache[caseId].timestamp < CACHE_TTL

\* keyCache.set(caseId, {key, timestamp})
CacheSet(cache, caseId, key, timestamp) ==
    [c \in DOMAIN cache \cup {caseId} |->
        IF c = caseId THEN [key |-> key, timestamp |-> timestamp] ELSE cache[c]]

\* A delete that empties the whole cache.
CacheDeleteAll(cache, caseId) == EmptyStore

\* keyCache.delete(caseId)
CacheDelete(cache, caseId) == [c \in DOMAIN cache \ {caseId} |-> cache[c]]

\* A deriveKeyForCase that looks into the cache before it looks at the record.
DeriveKeyForCaseCallCacheFirst(cache, caseId, password) ==
    IF ~db THEN [cache |-> cache, ret |-> Err("Database not initialized")]
    ELSE IF CacheHit(cache, caseId, now)
    THEN [cache |-> cache, ret |-> cache[caseId].key]
    ELSE IF ~Has(cases, caseId) THEN [cache |-> cache, ret |-> Err("Case not found")]
    ELSE IF Falsy(cases[caseId].encryptionSalt)
    THEN [cache |-> cache, ret |-> Err("Case encryption salt not found")]
    ELSE IF CryptoThrows(password) THEN [cache |-> cache, ret |-> Err("TypeError")]
    ELSE LET key == DeriveKey(password, cases[caseId].encryptionSalt)
         IN  [cache |-> CacheSet(cache, caseId, key, now), ret |-> key]

\* deriveKeyForCase(caseId, password): the cache afterwards and the key
\* returned, or the error thrown.
DeriveKeyForCaseCall(cache, caseId, password) ==
    IF ~db THEN [cache |-> cache, ret |-> Err("Database not initialized")]
    ELSE IF ~Has(cases, caseId) THEN [cache |-> cache, ret |-> Err("Case not found")]
    ELSE IF Falsy(cases[caseId].encryptionSalt)
    THEN [cache |-> cache, ret |-> Err("Case encryption salt not found")]
    ELSE IF CacheHit(cache, caseId, now)
    THEN [cache |-> cache, ret |-> cache[caseId].key]
    ELSE IF CryptoThrows(password) THEN [cache |-> cache, ret |-> Err("TypeError")]
    ELSE LET key == DeriveKey(password, cases[caseId].encryptionSalt)
         IN  [cache |-> CacheSet(cache, caseId, key, now), ret |-> key]

\* A getKeyForCustodyLog that answers undefined when it has neither a fresh
\* key nor a password.
GetKeyForCustodyLogCallSilent(cache, caseId, password) ==
    IF CacheHit(cache, caseId, now)
    THEN [cache |-> cache, ret |-> cache[caseId].key]
    ELSE IF Falsy(password) THEN [cache |-> cache, ret |-> Undefined]
    ELSE DeriveKeyForCaseCall(cache, caseId, password)

\* getKeyForCustodyLog(caseId, password?)
GetKeyForCustodyLogCall(cache, caseId, password) ==
    IF CacheHit(cache, caseId, now)
    THEN [cache |-> cache, ret |-> cache[caseId].key]
    ELSE IF Falsy(password)
    THEN [cache |-> cache,
          ret |-> Err("Password required to access case encryption key")]
    ELSE DeriveKeyForCaseCall(cache, caseId, password)

\* A verifyPassword that accepts any password for a record that has no
\* hash to compare with.
VerifyPasswordCallLenient(caseId, password) ==
    IF ~db THEN FALSE
    ELSE IF ~Has(cases, caseId) THEN FALSE
    ELSE IF CryptoThrows(password) THEN FALSE
    ELSE IF Falsy(cases[caseId].passwordVerificationHash) THEN TRUE
    ELSE IF Falsy(cases[caseId].encryptionSalt) THEN FALSE
    ELSE CalculateSHA256(DeriveKey(password, cases[caseId].encryptionSalt))
            = cases[caseId].passwordVerificationHash

\* verifyPassword(caseId, password); whatever is thrown inside is caught and
\* answered with false.
VerifyPasswordCall(caseId, password) ==
    IF ~db THEN FALSE
    ELSE IF ~Has(cases, caseId) THEN FALSE
    ELSE IF Falsy(cases[caseId].passwordVerificationHash)
            \/ Falsy(cases[caseId].encryptionSalt) THEN FALSE
    ELSE IF CryptoThrows(password) THEN FALSE
    ELSE CalculateSHA256(DeriveKey(password, cases[caseId].encryptionSalt))
            = cases[caseId].passwordVerificationHash

DeriveKeyForCase(caseId, password) ==
    LET r == DeriveKeyForCaseCall(keyCache, caseId, password)
    IN  /\ keyCache' = r.cache
        /\ lastOp' = [op |-> "deriveKeyForCase", hmacKey |-> NoCall,
                      arg |-> <<caseId, password>>,
                      ret |-> r.ret]
        /\ UNCHANGED <<derives, files, run, adbInput, adbTrace, user, sessions, db, cases, artifacts,
                       custodyLogs, logOrder, origin, now, isRunning, connected, stage,
                       nUpdates>>

GetKeyForCustodyLog(caseId, password) ==
    LET r == GetKeyForCustodyLogCall(keyCache, caseId, password)
    IN  /\ keyCache' = r.cache
        /\ lastOp' = [op |-> "getKeyForCustodyLog", hmacKey |-> NoCall,
                      arg |-> <<caseId, password>>,
                      ret |-> r.ret]
        /\ UNCHANGED <<derives, files, run, adbInput, adbTrace, user, sessions, db, cases, artifacts,
                       custodyLogs, logOrder, origin, now, isRunning, connected, stage,
                       nUpdates>>

\* A verifyPassword that keeps the key of a password it accepted.
VerifyPasswordCaching(caseId, password) ==
    LET ok == VerifyPasswordCall(caseId, password)
    IN  /\ keyCache' = IF ok
                       THEN CacheSet(keyCache, caseId,
                                DeriveKey(password, cases[caseId].encryptionSalt), now)
                       ELSE keyCache
        /\ lastOp' = [op |-> "verifyPassword", hmacKey |-> NoCall,
                      arg |-> <<caseId, password>>, ret |-> Bool(ok)]
        /\ UNCHANGED <<derives, files, run, adbInput, adbTrace, user, sessions, db, cases, artifacts,
                       custodyLogs, logOrder, origin, now, isRunning, connected, stage,
                       nUpdates>>

VerifyPassword(caseId, password) ==
    /\ lastOp' = [op |-> "verifyPassword", hmacKey |-> NoCall,
                  arg |-> <<caseId, password>>,
                  ret |-> Bool(VerifyPasswordCall(caseId, password))]
    /\ UNCHANGED <<derives, files, run, adbInput, adbTrace, user, sessions, db, cases, artifacts,
                   custodyLogs, logOrder, origin, keyCache, now, isRunning, connected,
                   stage, nUpdates>>

ClearCache ==
    /\ keyCache' = EmptyStore
    /\ lastOp' = [op |-> "clearCache", hmacKey |-> NoCall,
                  arg |-> Undefined, ret |-> Undefined]
    /\ UNCHANGED <<derives, files, run, adbInput, adbTrace, user, sessions, db, cases, artifacts,
                   custodyLogs, logOrder, origin, now, isRunning, connected, stage,
                   nUpdates>>

ClearCaseKey(caseId) ==
    /\ keyCache' = CacheDelete(keyCache, caseId)
    /\ lastOp' = [op |-> "clearCaseKey", hmacKey |-> NoCall,
                  arg |-> caseId, ret |-> Undefined]
    /\ UNCHANGED <<derives, files, run, adbInput, adbTrace, user, sessions, db, cases, artifacts,
                   custodyLogs, logOrder, origin, now, isRunning, connected, stage,
                   nUpdates>>

\* deriveKeyForCase in the two steps between which other calls can run: it
\* asks for the case record (await this.database.getCase) and, when the
\* record is there, does all the rest without a further wait.  A waiting call
\* notes whether a fresh key was cached when it began and whether a call for
\* the same case with another password has been waiting beside it.
Waiting == {slot \in 1..MaxCalls : derives[slot][1] = "call"}

Rivals(caseId, password) ==
    {slot \in Waiting : /\ derives[slot][2].caseId = caseId
                        /\ derives[slot][2].password # password}

DeriveBegin(caseId, password) ==
    /\ Waiting # 1..MaxCalls
    /\ LET slot == CHOOSE s \in 1..MaxCalls \ Waiting :
                       \A t \in 1..MaxCalls \ Waiting : s <= t
       IN  derives' = [s \in 1..MaxCalls |->
                          IF s = slot
                          THEN <<"call", [caseId |-> caseId,
                                          hit |-> CacheHit(keyCache, caseId, now),
                                          overlapped |-> Rivals(caseId, password) # {},
                                          password |-> password]>>
                          ELSE IF s \in Rivals(caseId, password)
                          THEN <<"call", [derives[s][2] EXCEPT !.overlapped = TRUE]>>
                          ELSE derives[s]]
    /\ lastOp' = [op |-> "deriveKeyForCase.begin", hmacKey |-> NoCall,
                  arg |-> <<caseId, password>>, ret |-> Undefined]
    /\ UNCHANGED <<db, cases, artifacts, custodyLogs, logOrder, origin, keyCache, now,
                   isRunning, connected, stage, nUpdates, user, sessions, adbInput,
                   adbTrace, run, files>>

\* The waiting call goes on.  lastOp notes whether the step before was a
\* clearCache() or a clearCaseKey of this case.
DeriveResume(slot) ==
    /\ slot \in Waiting
    /\ LET call == derives[slot][2]
           r == DeriveKeyForCaseCall(keyCache, call.caseId, call.password)
           evicted == \/ lastOp.op = "clearCache"
                      \/ lastOp.op = "clearCaseKey" /\ lastOp.arg = call.caseId
       IN  /\ keyCache' = r.cache
           /\ lastOp' = [op |-> "deriveKeyForCase.resume", hmacKey |-> NoCall,
                         arg |-> <<call.caseId, call.password, call.overlapped, call.hit,
                                   evicted>>,
                         ret |-> r.ret]
    /\ derives' = [derives EXCEPT ![slot] = NoDerive]
    /\ UNCHANGED <<db, cases, artifacts, custodyLogs, logOrder, origin, now, isRunning,
                   connected, stage, nUpdates, user, sessions, adbInput, adbTrace, run,
                   files>>

----------------------------------------------------------------------------
(* TargetAcquisitionEngine and AcquisitionEngine *)

\* The device scanForDevices reports.
TargetDevices ==
    {[serial |-> Str("ABC123456789"), model |-> Str("Galaxy S21"),
      manufacturer |-> Str("Samsung")]}

ConnectToDevice(deviceSerial) ==
    \E success \in BOOLEAN :
        /\ connected' = success
        /\ lastOp' = [op |-> "connectToDevice", hmacKey |-> NoCall,
                      arg |-> deviceSerial,
                      ret |-> Bool(success)]
        /\ UNCHANGED <<derives, files, run, adbInput, adbTrace, user, sessions, db, cases, artifacts,
                       custodyLogs, logOrder, origin, keyCache, now, isRunning, stage,
                       nUpdates>>

\* TargetAcquisitionEngine.startLogicalAcquisition(caseId, targetDevice,
\* password) up to the end of its first createCustodyLog call.  The call
\* passes one argument, the object with an hmacKey property, so the hmacKey
\* parameter of createCustodyLog is undefined.  What is thrown before the
\* try block leaves isRunning set; what is thrown inside it is caught,
\* isRunning is cleared and the bridge disconnected.
TargetStartLogicalAcquisition(caseId, targetDevice, password, logId) ==
    \E requestOk \in BOOLEAN :
        LET forensicCase == cases[caseId]
            encryptionKey == DeriveKey(password, forensicCase.encryptionSalt)
            verificationHash == CalculateSHA256(encryptionKey)
            thrownBefore ==
                IF ~db THEN Err("Database not initialized")
                ELSE IF ~Has(cases, caseId) THEN Err("Case not found")
                ELSE IF CryptoThrows(password) THEN Err("TypeError")
                ELSE IF verificationHash # forensicCase.passwordVerificationHash
                THEN Err("Invalid password")
                ELSE Undefined
            started == CreateCustodyLogCall(custodyLogs,
                           [caseId |-> caseId,
                            action |-> Str("target_acquisition_started"),
                            examiner |-> forensicCase.examiner,
                            details |-> <<"text", "Target device",
                                          targetDevice.manufacturer, targetDevice.model,
                                          targetDevice.serial>>,
                            deviceIdentifier |-> Undefined,
                            hmacKey |-> encryptionKey],
                           Undefined, logId, ISO(now), requestOk)
        IN  IF thrownBefore # Undefined
            THEN /\ isRunning' = TRUE
                 /\ lastOp' = [op |-> "target.startLogicalAcquisition", hmacKey |-> NoCall,
                               arg |-> <<caseId, password>>, ret |-> thrownBefore]
                 /\ UNCHANGED <<derives, files, run, adbInput, adbTrace, user, sessions, db, cases,
                                artifacts, custodyLogs, logOrder, origin, keyCache, now,
                                connected, stage, nUpdates>>
            ELSE IF ~started.ok
            THEN /\ isRunning' = FALSE
                 /\ connected' = FALSE
                 /\ lastOp' = [op |-> "target.startLogicalAcquisition", hmacKey |-> Undefined,
                               arg |-> <<caseId, password>>,
                               ret |-> Err("Target acquisition failed")]
                 /\ UNCHANGED <<derives, files, run, adbInput, adbTrace, user, sessions, db, cases,
                                artifacts, custodyLogs, logOrder, origin, keyCache, now,
                                stage, nUpdates>>
            ELSE /\ isRunning' = TRUE
                 /\ custodyLogs' = started.store
                 /\ logOrder' = Append(logOrder, [id |-> logId, hmacKey |-> Undefined])
                 /\ stage' = [stage EXCEPT !.target = "acquireDeviceInfo"]
                 /\ lastOp' = [op |-> "target.startLogicalAcquisition", hmacKey |-> Undefined,
                               arg |-> <<caseId, password>>, ret |-> Undefined]
                 /\ UNCHANGED <<derives, files, run, adbInput, adbTrace, user, sessions, db, cases,
                                artifacts, origin, keyCache, now, connected, nUpdates>>

StopAcquisition ==
    /\ isRunning' = FALSE
    /\ connected' = FALSE
    /\ run' = IF run.at = "idle" THEN run ELSE [run EXCEPT !.stopped = TRUE]
    /\ lastOp' = [op |-> "stopAcquisition", hmacKey |-> NoCall,
                  arg |-> Undefined, ret |-> Undefined]
    /\ UNCHANGED <<derives, files, adbInput, adbTrace, user, sessions, db, cases, artifacts,
                   custodyLogs, logOrder, origin, keyCache, now, stage, nUpdates>>

\* TargetAcquisitionEngine.startLogicalAcquisition in the two steps between
\* which another handler can run.  The first sets isRunning and waits for
\* database.getCase; the second, when the record has arrived, goes on as
\* TargetStartLogicalAcquisition does: nothing in it reads isRunning.
\* stopped records that stopAcquisition() was called in between.
TargetBegin(caseId, targetDevice, password) ==
    /\ run.at = "idle"
    /\ isRunning' = TRUE
    /\ run' = [at |-> "getCase", caseId |-> caseId, targetDevice |-> targetDevice,
               password |-> password, stopped |-> FALSE]
    /\ lastOp' = [op |-> "target.begin", hmacKey |-> NoCall,
                  arg |-> <<caseId, password>>, ret |-> Undefined]
    /\ UNCHANGED <<derives, files, db, cases, artifacts, custodyLogs, logOrder, origin, keyCache, now,
                   connected, stage, nUpdates, user, sessions, adbInput, adbTrace>>

TargetResume(logId) ==
    /\ run.at = "getCase"
    /\ \E requestOk \in BOOLEAN :
        LET caseId == run.caseId
            password == run.password
            forensicCase == cases[caseId]
            encryptionKey == DeriveKey(password, forensicCase.encryptionSalt)
            verificationHash == CalculateSHA256(encryptionKey)
            thrownBefore ==
                IF ~db THEN Err("Database not initialized")
                ELSE IF ~Has(cases, caseId) THEN Err("Case not found")
                ELSE IF CryptoThrows(password) THEN Err("TypeError")
                ELSE IF verificationHash # forensicCase.passwordVerificationHash
                THEN Err("Invalid password")
                ELSE Undefined
            started == CreateCustodyLogCall(custodyLogs,
                           [caseId |-> caseId,
                            action |-> Str("target_acquisition_started"),
                            examiner |-> forensicCase.examiner,
                            details |-> <<"text", "Target device",
                                          run.targetDevice.manufacturer,
                                          run.targetDevice.model,
                                          run.targetDevice.serial>>,
                            deviceIdentifier |-> Undefined,
                            hmacKey |-> encryptionKey],
                           Undefined, logId, ISO(now), requestOk)
        IN  IF thrownBefore # Undefined
            THEN /\ run' = [run EXCEPT !.at = "idle"]
                 /\ lastOp' = [op |-> "target.resume", hmacKey |-> NoCall,
                               arg |-> <<caseId, password>>, ret |-> thrownBefore]
                 /\ UNCHANGED <<derives, files, isRunning, connected, custodyLogs, logOrder>>
            ELSE IF ~started.ok
            THEN /\ isRunning' = FALSE
                 /\ connected' = FALSE
                 /\ run' = [run EXCEPT !.at = "idle"]
                 /\ lastOp' = [op |-> "target.resume", hmacKey |-> Undefined,
                               arg |-> <<caseId, password>>,
                               ret |-> Err("Target acquisition failed")]
                 /\ UNCHANGED <<derives, files, custodyLogs, logOrder>>
            ELSE /\ custodyLogs' = started.store
                 /\ logOrder' = Append(logOrder, [id |-> logId, hmacKey |-> Undefined])
                 /\ run' = [run EXCEPT !.at = "acquireDeviceInfo"]
                 /\ lastOp' = [op |-> "target.resume", hmacKey |-> Undefined,
                               arg |-> <<caseId, password>>, ret |-> Undefined]
                 /\ UNCHANGED <<derives, files, isRunning, connected>>
    /\ UNCHANGED <<derives, files, db, cases, artifacts, origin, keyCache, now, stage, nUpdates, user,
                   sessions, adbInput, adbTrace>>

\* AcquisitionEngine.startLogicalAcquisition(caseId) up to the end of its
\* first createCustodyLog call, which again gets no hmacKey argument (the
\* object's hmacKey property is forensicCase.encryptionKey, a property no
\* case record has).
LocalStartLogicalAcquisition(caseId, logId) ==
    \E requestOk \in BOOLEAN :
        LET forensicCase == cases[caseId]
            thrownBefore ==
                IF ~db THEN Err("Database not initialized")
                ELSE IF ~Has(cases, caseId) THEN Err("Case not found")
                ELSE Undefined
            started == CreateCustodyLogCall(custodyLogs,
                           [caseId |-> caseId,
                            action |-> Str("acquisition_started"),
                            examiner |-> forensicCase.examiner,
                            details |-> Str("Logical acquisition started"),
                            deviceIdentifier |-> Undefined,
                            hmacKey |-> Undefined],
                           Undefined, logId, ISO(now), requestOk)
        IN  IF thrownBefore # Undefined
            THEN /\ lastOp' = [op |-> "local.startLogicalAcquisition", hmacKey |-> NoCall,
                               arg |-> <<caseId>>, ret |-> thrownBefore]
                 /\ UNCHANGED <<derives, files, run, adbInput, adbTrace, user, sessions, db, cases,
                                artifacts, custodyLogs, logOrder, origin, keyCache, now,
                                isRunning, connected, stage, nUpdates>>
            ELSE IF ~started.ok
            THEN /\ lastOp' = [op |-> "local.startLogicalAcquisition", hmacKey |-> Undefined,
                               arg |-> <<caseId>>, ret |-> Err("Acquisition failed")]
                 /\ UNCHANGED <<derives, files, run, adbInput, adbTrace, user, sessions, db, cases,
                                artifacts, custodyLogs, logOrder, origin, keyCache, now,
                                isRunning, connected, stage, nUpdates>>
            ELSE /\ custodyLogs' = started.store
                 /\ logOrder' = Append(logOrder, [id |-> logId, hmacKey |-> Undefined])
                 /\ stage' = [stage EXCEPT !.local = "acquireContacts"]
                 /\ lastOp' = [op |-> "local.startLogicalAcquisition", hmacKey |-> Undefined,
                               arg |-> <<caseId>>, ret |-> Undefined]
                 /\ UNCHANGED <<derives, files, run, adbInput, adbTrace, user, sessions, db, cases,
                                artifacts, origin, keyCache, now, isRunning, connected,
                                nUpdates>>

----------------------------------------------------------------------------
(* The stages of the two engines.  A stage is modelled as the method it is, *)
(* applied to the arguments startLogicalAcquisition would pass once it got  *)
(* past its first custody entry.                                            *)

\* The values generateIV() can return.
IVs == {<<"iv", 1>>, <<"iv", 2>>}

\* ForensicCrypto.encrypt(data, key) when its generateIV() call returns iv.
Encrypt(data, key, iv) == [encrypted |-> <<"aes", data, key, iv>>, iv |-> iv]

\* The texts a stage encrypts: JSON.stringify of what it collected.
Payloads == {Str("contacts"), Str("apps:3")}

\* data.length
Length(data) == <<"num", Len(data[2])>>

\* Filesystem.writeFile({path, data, ...}): a file is replaced by a later
\* write to the same path.
WriteFile(fs, path, data) ==
    [p \in DOMAIN fs \cup {path} |-> IF p = path THEN data ELSE fs[p]]

\* Which writeFile call of saveEncryptedArtifact rejects, if any.
WriteFailures == {"none", "file", "iv"}

\* saveEncryptedArtifact(data, filename, encryptionKey) of either engine; dir
\* is 'evidence/target/' or 'evidence/'.  CryptoJS.AES.encrypt throws on a
\* key that is undefined.
SaveEncryptedArtifactCall(fs, dir, data, filename, encryptionKey, iv, fail) ==
    LET e == Encrypt(data, encryptionKey, iv)
        filePath == <<"path", dir, filename>>
        ivPath == <<"path", dir, filename, ".iv">>
        written == WriteFile(fs, filePath, e.encrypted)
    IN  IF CryptoThrows(encryptionKey)
        THEN [ok |-> FALSE, fs |-> fs, ret |-> Err("TypeError"), encrypted |-> Undefined]
        ELSE IF fail = "file"
        THEN [ok |-> FALSE, fs |-> fs, ret |-> Err("writeFile"), encrypted |-> Undefined]
        ELSE IF fail = "iv"
        THEN [ok |-> FALSE, fs |-> written, ret |-> Err("writeFile"),
              encrypted |-> e.encrypted]
        ELSE [ok |-> TRUE, fs |-> WriteFile(written, ivPath, e.iv), ret |-> filePath,
              encrypted |-> e.encrypted]

\* An artifact literal whose digests and size are those of the file written.
DeviceInfoArtifactOfCiphertext(caseId, data, saved) ==
    [caseId |-> caseId,
     type |-> Str("device_info"),
     name |-> Str("Target Device Information"),
     filePath |-> saved.ret,
     sha256 |-> CalculateSHA256(saved.encrypted),
     md5 |-> CalculateMD5(saved.encrypted),
     size |-> <<"num", 0>>,
     isEncrypted |-> Bool(TRUE),
     metadata |-> Str("{model, manufacturer, serial}")]

\* The artifact literal of TargetAcquisitionEngine.acquireDeviceInfo; saved is
\* what its saveEncryptedArtifact call did.
DeviceInfoArtifact(caseId, data, saved) ==
    [caseId |-> caseId,
     type |-> Str("device_info"),
     name |-> Str("Target Device Information"),
     filePath |-> saved.ret,
     sha256 |-> CalculateSHA256(data),
     md5 |-> CalculateMD5(data),
     size |-> Length(data),
     isEncrypted |-> Bool(TRUE),
     metadata |-> Str("{model, manufacturer, serial}")]

\* The artifact literal of AcquisitionEngine.acquireContacts.
ContactsArtifact(caseId, contactsData, saved) ==
    [caseId |-> caseId,
     type |-> Str("contact"),
     name |-> Str("Contacts Database"),
     filePath |-> saved.ret,
     sha256 |-> CalculateSHA256(contactsData),
     md5 |-> CalculateMD5(contactsData),
     size |-> Length(contactsData),
     isEncrypted |-> Bool(TRUE),
     metadata |-> Str("{count}")]

\* A stage whose saveEncryptedArtifact call threw: the stores are as before.
StageThrew(op, caseId, encryptionKey, saved) ==
    /\ lastOp' = [op |-> op, hmacKey |-> NoCall,
                  arg |-> <<caseId, encryptionKey>>, ret |-> saved.ret]
    /\ UNCHANGED <<derives, db, cases, artifacts, custodyLogs, logOrder, origin, keyCache, now,
                   isRunning, connected, stage, nUpdates, user, sessions, adbInput,
                   adbTrace, run>>

\* TargetAcquisitionEngine.acquireDeviceInfo(caseId, encryptionKey, deviceInfo);
\* data is JSON.stringify(deviceInfo, null, 2).  It passes the key on to
\* addArtifact.
AcquireDeviceInfo(caseId, encryptionKey, data, logId) ==
    \E iv \in IVs, fail \in WriteFailures :
        LET saved == SaveEncryptedArtifactCall(files, "evidence/target/", data,
                         <<"device_info_", now, ".json">>, encryptionKey, iv, fail)
        IN  /\ files' = saved.fs
            /\ IF saved.ok
               THEN AddArtifactCall("target.acquireDeviceInfo",
                                    DeviceInfoArtifact(caseId, data, saved),
                                    encryptionKey, logId)
               ELSE StageThrew("target.acquireDeviceInfo", caseId, encryptionKey, saved)

\* AcquisitionEngine.acquireContacts(caseId, encryptionKey).  It calls
\* addArtifact with one argument, so addArtifact's encryptionKey is undefined.
AcquireContacts(caseId, encryptionKey, logId) ==
    \E iv \in IVs, fail \in WriteFailures :
        LET contactsData == Str("contacts")
            saved == SaveEncryptedArtifactCall(files, "evidence/", contactsData,
                         <<"contacts_", now, ".json">>, encryptionKey, iv, fail)
        IN  /\ files' = saved.fs
            /\ IF saved.ok
               THEN AddArtifactCall("local.acquireContacts",
                                    ContactsArtifact(caseId, contactsData, saved),
                                    Undefined, logId)
               ELSE StageThrew("local.acquireContacts", caseId, encryptionKey, saved)

----------------------------------------------------------------------------
(* ADBBridge: the validators.  A string is the sequence of its characters. *)

Lower == {"a", "b", "c", "d", "e", "f", "g", "h", "i", "j", "k", "l", "m", "n", "o", "p", "q", "r", "s", "t", "u", "v", "w", "x", "y", "z"}
Upper == {"A", "B", "C", "D", "E", "F", "G", "H", "I", "J", "K", "L", "M", "N", "O", "P", "Q", "R", "S", "T", "U", "V", "W", "X", "Y", "Z"}
Digit == {"0", "1", "2", "3", "4", "5", "6", "7", "8", "9"}

\* [a-z0-9._]
PropChars == Lower \cup Digit \cup {".", "_"}
\* [a-zA-Z0-9_\-\/\.]
PathChars == Lower \cup Upper \cup Digit \cup {"_", "-", "/", "."}
\* [a-zA-Z0-9_\-\.]
NameChars == Lower \cup Upper \cup Digit \cup {"_", "-", "."}
\* \s, as far as the inputs go
Whitespace == {" ", "\t", "\n"}
\* The backquote character, which a string of the module cannot hold.
Backquote == "backquote"
\* /[;&|<>$\u0060(){}[\]\\]/
DangerousChars ==
    {";", "&", "|", "<", ">", "$", Backquote, "(", ")", "{", "}", "[", "]", "\\"}

AllIn(s, chars) == \A i \in 1..Len(s) : s[i] \in chars
OneOrMore(s, chars) == Len(s) >= 1 /\ AllIn(s, chars)
StartsWith(s, prefix) == Len(s) >= Len(prefix) /\ SubSeq(s, 1, Len(prefix)) = prefix
EndsWith(s, suffix) ==
    Len(s) >= Len(suffix) /\ SubSeq(s, Len(s) - Len(suffix) + 1, Len(s)) = suffix
After(s, prefix) == SubSeq(s, Len(prefix) + 1, Len(s))
\* String.prototype.includes
Includes(s, sub) == \E i \in 1..(Len(s) - Len(sub) + 1) : SubSeq(s, i, i + Len(sub) - 1) = sub
\* RegExp.prototype.test of a character class
HasCharIn(s, chars) == \E i \in 1..Len(s) : s[i] \in chars

GETPROP_RO == <<"g", "e", "t", "p", "r", "o", "p", " ", "r", "o", ".">>
PM_LIST_PACKAGES == <<"p", "m", " ", "l", "i", "s", "t", " ", "p", "a", "c", "k", "a", "g", "e", "s">>
SU_C_ID == <<"s", "u", " ", "-", "c", " ", "\"", "i", "d", "\"">>
LS_LA == <<"l", "s", " ", "-", "l", "a", " ">>
SDCARD == <<"/", "s", "d", "c", "a", "r", "d", "/">>
STORAGE_EMULATED_0 == <<"/", "s", "t", "o", "r", "a", "g", "e", "/", "e", "m", "u", "l", "a", "t", "e", "d", "/", "0", "/">>
DATA_DATA == <<"/", "d", "a", "t", "a", "/", "d", "a", "t", "a", "/">>
DATABASES == <<"/", "d", "a", "t", "a", "b", "a", "s", "e", "s", "/">>
FILES == <<"/", "f", "i", "l", "e", "s", "/">>
DOT_DB == <<".", "d", "b">>

\* The getprop pattern without its end anchor.
GetpropPatternUnanchored(command) ==
    /\ StartsWith(command, GETPROP_RO)
    /\ Len(command) > Len(GETPROP_RO)
    /\ command[Len(GETPROP_RO) + 1] \in PropChars

\* /^getprop ro\.[a-z0-9._]+$/
GetpropPattern(command) ==
    StartsWith(command, GETPROP_RO) /\ OneOrMore(After(command, GETPROP_RO), PropChars)

\* /^pm list packages(?:\s+-[a-z])?$/
PmListPattern(command) ==
    /\ StartsWith(command, PM_LIST_PACKAGES)
    /\ LET flag == After(command, PM_LIST_PACKAGES)
           n == Len(flag)
       IN  \/ n = 0
           \/ /\ n >= 3
              /\ flag[n] \in Lower
              /\ flag[n - 1] = "-"
              /\ OneOrMore(SubSeq(flag, 1, n - 2), Whitespace)

\* /^su -c "id"$/
SuIdPattern(command) == command = SU_C_ID

\* /^ls -la ([a-zA-Z0-9_\-\/\.]+)$/
\* An ls shape that takes lower-case paths only.
LsPatternLowercase(command) ==
    /\ StartsWith(command, LS_LA)
    /\ OneOrMore(After(command, LS_LA), PathChars \ Upper)

LsPattern(command) ==
    StartsWith(command, LS_LA) /\ OneOrMore(After(command, LS_LA), PathChars)

\* Object.values(ALLOWED_COMMANDS).some(pattern => pattern.test(command))
ALLOWED_COMMANDS(command) ==
    \/ GetpropPattern(command)
    \/ PmListPattern(command)
    \/ SuIdPattern(command)
    \/ LsPattern(command)

\* /^\/sdcard\/[a-zA-Z0-9_\-\/\.]+$/
SdcardPattern(path) == StartsWith(path, SDCARD) /\ OneOrMore(After(path, SDCARD), PathChars)

\* /^\/storage\/emulated\/0\/[a-zA-Z0-9_\-\/\.]+$/
EmulatedPattern(path) ==
    StartsWith(path, STORAGE_EMULATED_0)
        /\ OneOrMore(After(path, STORAGE_EMULATED_0), PathChars)

\* /^\/data\/data\/[a-z][a-z0-9._]*<dir>: the package name is followed by
\* dir; what follows dir is returned for each way the split can be made.
AfterPackage(path, dir) ==
    IF ~StartsWith(path, DATA_DATA) THEN {}
    ELSE LET r == After(path, DATA_DATA)
         IN  {After(SubSeq(r, i + 1, Len(r)), dir) :
                 i \in {j \in 1..Len(r) :
                           /\ r[1] \in Lower
                           /\ AllIn(SubSeq(r, 1, j), PropChars)
                           /\ StartsWith(SubSeq(r, j + 1, Len(r)), dir)}}

\* /^\/data\/data\/[a-z][a-z0-9._]*\/databases\/[a-zA-Z0-9_\-\.]+\.db$/
AppDatabasePattern(path) ==
    \E name \in AfterPackage(path, DATABASES) :
        /\ EndsWith(name, DOT_DB)
        /\ OneOrMore(SubSeq(name, 1, Len(name) - Len(DOT_DB)), NameChars)

\* /^\/data\/data\/[a-z][a-z0-9._]*\/files\/[a-zA-Z0-9_\-\/\.]+$/
AppFilesPattern(path) ==
    \E file \in AfterPackage(path, FILES) : OneOrMore(file, PathChars)

\* ALLOWED_PATH_PATTERNS.some(pattern => pattern.test(path))
ALLOWED_PATH_PATTERNS(path) ==
    \/ SdcardPattern(path)
    \/ EmulatedPattern(path)
    \/ AppDatabasePattern(path)
    \/ AppFilesPattern(path)

\* What a validator answers when it does not throw.
Accepted == Undefined

\* validateCommand(command): the error thrown, or nothing
ValidateCommandCall(command) ==
    IF ~ALLOWED_COMMANDS(command)
    THEN Err("Security: Command not allowed for forensic acquisition")
    ELSE IF HasCharIn(command, DangerousChars)
    THEN Err("Security: Command contains forbidden characters")
    ELSE Accepted

\* A validatePath that does not look for '..'.
ValidatePathCallWithTraversal(path) ==
    IF ~ALLOWED_PATH_PATTERNS(path)
    THEN Err("Security: Path not allowed for forensic acquisition")
    ELSE IF HasCharIn(path, DangerousChars)
    THEN Err("Security: Path contains forbidden characters")
    ELSE Accepted

\* validatePath(path): the error thrown, or nothing
ValidatePathCall(path) ==
    IF Includes(path, <<".", ".">>)
    THEN Err("Security: Path traversal not allowed")
    ELSE IF ~ALLOWED_PATH_PATTERNS(path)
    THEN Err("Security: Path not allowed for forensic acquisition")
    ELSE IF HasCharIn(path, DangerousChars)
    THEN Err("Security: Path contains forbidden characters")
    ELSE Accepted

----------------------------------------------------------------------------
(* ADBBridge: the operations.  window.AndroidADBBridge is the transport; it
   is there or not (then the bridge answers with mock data), and a call to
   it may throw. *)

Transports == {"native", "mock", "throws"}

\* An entry of adbTrace: a validator's verdict on a string, or a string
\* handed to the transport (then ok tells whether the transport took it).
Event(event, text, ok) == <<event, text, ok>>

EventOf(e) == e[1]
TextOf(e) == e[2]
OkOf(e) == e[3]

\* validateCommand / validatePath as an entry of adbTrace
Verdict(event, text, v) == Event(event, text, v = Accepted)

\* A bridge that hands the command to the transport before it looks at it.
ExecuteCommandInternalCallSendFirst(command, transport) ==
    LET v == ValidateCommandCall(command)
        send == IF transport = "mock" THEN <<>>
                ELSE <<Event("executeCommand", command, transport = "native")>>
    IN  IF IsError(v)
        THEN [trace |-> send \o <<Verdict("validateCommand", command, v)>>, ret |-> v]
        ELSE [trace |-> send \o <<Verdict("validateCommand", command, v)>>,
              ret |-> IF transport = "throws" THEN Err("Command execution failed")
                      ELSE <<"output", command>>]

\* executeCommandInternal(command): what it validated and sent, and the
\* output returned or the error thrown.
ExecuteCommandInternalCall(command, transport) ==
    LET v == ValidateCommandCall(command)
    IN  IF IsError(v)
        THEN [trace |-> <<Verdict("validateCommand", command, v)>>, ret |-> v]
        ELSE [trace |-> <<Verdict("validateCommand", command, v)>> \o
                        (IF transport = "mock" THEN <<>>
                         ELSE <<Event("executeCommand", command, transport = "native")>>),
              ret |-> IF transport = "throws" THEN Err("Command execution failed")
                      ELSE <<"output", command>>]

GETPROP == <<"g", "e", "t", "p", "r", "o", "p", " ">>
RO == <<"r", "o", ".">>

\* executeGetProp(property)
ExecuteGetPropCall(property, transport) ==
    IF ~(StartsWith(property, RO) /\ OneOrMore(After(property, RO), PropChars))
    THEN [trace |-> <<>>, ret |-> Err("Invalid property name")]
    ELSE ExecuteCommandInternalCall(GETPROP \o property, transport)

\* executePackageList(flags?)
ExecutePackageListCall(flags, transport) ==
    LET command == IF flags = <<>> THEN PM_LIST_PACKAGES
                   ELSE PM_LIST_PACKAGES \o <<" ">> \o flags
    IN  ExecuteCommandInternalCall(command, transport)

\* pullFile(remotePath, localPath): a transport that throws is answered
\* with false.
PullFileCall(remotePath, localPath, transport) ==
    LET v == ValidatePathCall(remotePath)
    IN  IF IsError(v)
        THEN [trace |-> <<Verdict("validatePath", remotePath, v)>>, ret |-> v]
        ELSE [trace |-> <<Verdict("validatePath", remotePath, v)>> \o
                        (IF transport = "mock" THEN <<>>
                         ELSE <<Event("pullFile", remotePath, transport = "native")>>),
              ret |-> Bool(transport # "throws")]

\* listDirectory(path): a rejected path throws; whatever the ls command
\* throws is answered with [].
ListDirectoryCall(path, transport) ==
    LET v == ValidatePathCall(path)
    IN  IF IsError(v)
        THEN [trace |-> <<Verdict("validatePath", path, v)>>, ret |-> v]
        ELSE LET r == ExecuteCommandInternalCall(LS_LA \o path, transport)
             IN  [trace |-> <<Verdict("validatePath", path, v)>> \o r.trace,
                  ret |-> IF IsError(r.ret) THEN <<"lines">> ELSE <<"lines", r.ret>>]

\* checkRootAccess(): whatever is thrown is answered with false; rooted is
\* whether the output of a device that answers holds 'uid=0'.
CheckRootAccessCall(transport, rooted) ==
    LET r == ExecuteCommandInternalCall(SU_C_ID, transport)
    IN  [trace |-> r.trace,
         ret |-> Bool(~IsError(r.ret) /\ transport = "native" /\ rooted)]

\* The properties getDeviceInfo() reads, in order.
DeviceInfoProperties ==
    <<<<"r", "o", ".", "p", "r", "o", "d", "u", "c", "t", ".", "m", "o", "d", "e", "l">>,
      <<"r", "o", ".", "p", "r", "o", "d", "u", "c", "t", ".", "m", "a", "n", "u", "f", "a", "c", "t", "u", "r", "e", "r">>,
      <<"r", "o", ".", "b", "u", "i", "l", "d", ".", "v", "e", "r", "s", "i", "o", "n", ".", "r", "e", "l", "e", "a", "s", "e">>,
      <<"r", "o", ".", "b", "u", "i", "l", "d", ".", "d", "i", "s", "p", "l", "a", "y", ".", "i", "d">>,
      <<"r", "o", ".", "s", "e", "r", "i", "a", "l", "n", "o">>>>

\* The getprop calls of getDeviceInfo() from the i-th on, up to the first
\* that throws; the transport throws at the throwAt-th call, if at all.
RECURSIVE GetProps(_, _, _)
GetProps(i, transport, throwAt) ==
    IF i > Len(DeviceInfoProperties) THEN [trace |-> <<>>, ret |-> Accepted]
    ELSE LET r == ExecuteGetPropCall(DeviceInfoProperties[i],
                                     IF i = throwAt THEN "throws" ELSE transport)
         IN  IF IsError(r.ret) THEN r
             ELSE LET rest == GetProps(i + 1, transport, throwAt)
                  IN  [trace |-> r.trace \o rest.trace, ret |-> rest.ret]

\* getDeviceInfo(): the device information, or null when a getprop threw
GetDeviceInfoCall(transport, throwAt, rooted) ==
    LET props == GetProps(1, transport, throwAt)
    IN  IF IsError(props.ret) THEN [trace |-> props.trace, ret |-> Null]
        ELSE LET root == CheckRootAccessCall(transport, rooted)
             IN  [trace |-> props.trace \o root.trace,
                  ret |-> <<"deviceInfo", transport, root.ret>>]

\* The step of a bridge operation: its trace and its result are recorded.
BridgeStep(op, arg, r) ==
    /\ adbTrace' = r.trace
    /\ lastOp' = [op |-> op, hmacKey |-> NoCall, arg |-> arg, ret |-> r.ret]
    /\ UNCHANGED <<derives, files, run, db, cases, artifacts, custodyLogs, logOrder, origin, keyCache,
                   now, isRunning, connected, stage, nUpdates, user, sessions,
                   adbInput>>

ValidateCommand ==
    LET v == ValidateCommandCall(adbInput)
    IN  BridgeStep("validateCommand", adbInput,
                   [trace |-> <<Verdict("validateCommand", adbInput, v)>>, ret |-> v])

ValidatePath ==
    LET v == ValidatePathCall(adbInput)
    IN  BridgeStep("validatePath", adbInput,
                   [trace |-> <<Verdict("validatePath", adbInput, v)>>, ret |-> v])

ExecuteGetProp(transport) ==
    BridgeStep("executeGetProp", adbInput, ExecuteGetPropCall(adbInput, transport))

ExecutePackageList(transport) ==
    BridgeStep("executePackageList", adbInput, ExecutePackageListCall(adbInput, transport))

LocalPath == <<"/", "t", "m", "p", "/", "x">>

PullFile(transport) ==
    BridgeStep("pullFile", adbInput, PullFileCall(adbInput, LocalPath, transport))

ListDirectory(transport) ==
    BridgeStep("listDirectory", adbInput, ListDirectoryCall(adbInput, transport))

CheckRootAccess(transport, rooted) ==
    BridgeStep("checkRootAccess", <<>>, CheckRootAccessCall(transport, rooted))

GetDeviceInfo(transport, throwAt, rooted) ==
    BridgeStep("getDeviceInfo", <<>>, GetDeviceInfoCall(transport, throwAt, rooted))

----------------------------------------------------------------------------
(* AuthProvider: the examiner's session *)

SESSION_TIMEOUT == 15 * 60 * 1000

\* The default examiner initializeAuth() creates, and the password it is given.
ExaminerId == <<"user", 1>>
ExaminerPassword == <<"pw", 1>>
ExaminerSalt == <<"salt", 9>>
DefaultExaminer ==
    [id |-> ExaminerId, badgeNumber |-> Str("EX001"), salt |-> ExaminerSalt,
     passwordHash |-> DeriveKey(ExaminerPassword, ExaminerSalt)]

\* AuthDatabase.verifyPassword(badgeNumber, password): the user, or null
AuthVerifyPassword(badgeNumber, password) ==
    IF badgeNumber # DefaultExaminer.badgeNumber THEN Null
    ELSE IF DeriveKey(password, DefaultExaminer.salt) # DefaultExaminer.passwordHash
         THEN Null
         ELSE DefaultExaminer.id

\* AuthDatabase.storeSession(userId): put {userId, timestamp, lastActivity}
StoreSession(store, userId, time) ==
    [k \in DOMAIN store \cup {userId} |->
        IF k = userId THEN [userId |-> userId, timestamp |-> time, lastActivity |-> time]
        ELSE store[k]]

\* AuthDatabase.clearSession(userId): delete
ClearSession(store, userId) == [k \in DOMAIN store \ {userId} |-> store[k]]

\* login(badgeNumber, password): the user is set before the session is
\* stored; a failing put is caught and login answers false.
Login(badgeNumber, password, requestOk) ==
    LET authenticatedUser == AuthVerifyPassword(badgeNumber, password) IN
    /\ IF authenticatedUser = Null
       THEN /\ UNCHANGED <<derives, files, run, adbInput, adbTrace, user, sessions>>
            /\ lastOp' = [op |-> "login", hmacKey |-> NoCall,
                          arg |-> <<badgeNumber, password>>, ret |-> Bool(FALSE)]
       ELSE /\ user' = authenticatedUser
            /\ sessions' = IF requestOk
                           THEN StoreSession(sessions, authenticatedUser, now)
                           ELSE sessions
            /\ lastOp' = [op |-> "login", hmacKey |-> NoCall,
                          arg |-> <<badgeNumber, password>>, ret |-> Bool(requestOk)]
    /\ UNCHANGED <<derives, files, run, adbInput, adbTrace, db, cases, artifacts, custodyLogs, logOrder,
                   origin, keyCache, now, isRunning, connected, stage, nUpdates>>

\* What logout() does to the user state and the session store.
LogoutCall ==
    /\ sessions' = IF user # Null THEN ClearSession(sessions, user) ELSE sessions
    /\ user' = Null

\* logout()
Logout ==
    /\ LogoutCall
    /\ lastOp' = [op |-> "logout", hmacKey |-> NoCall, arg |-> <<user>>, ret |-> Undefined]
    /\ UNCHANGED <<derives, files, run, adbInput, adbTrace, db, cases, artifacts, custodyLogs, logOrder,
                   origin, keyCache, now, isRunning, connected, stage, nUpdates>>

\* checkSession(): a missing session, or one idle for more than
\* SESSION_TIMEOUT, logs the examiner out; otherwise the activity is renewed.
CheckSession ==
    /\ IF user = Null
       THEN /\ UNCHANGED <<derives, files, run, adbInput, adbTrace, user, sessions>>
            /\ lastOp' = [op |-> "checkSession", hmacKey |-> NoCall,
                          arg |-> <<user>>, ret |-> Bool(FALSE)]
       ELSE IF \/ ~Has(sessions, user)
               \/ now - sessions[user].lastActivity > SESSION_TIMEOUT
            THEN /\ LogoutCall
                 /\ lastOp' = [op |-> "checkSession", hmacKey |-> NoCall,
                               arg |-> <<user>>, ret |-> Bool(FALSE)]
            ELSE /\ sessions' = StoreSession(sessions, user, now)
                 /\ user' = user
                 /\ lastOp' = [op |-> "checkSession", hmacKey |-> NoCall,
                               arg |-> <<user>>, ret |-> Bool(TRUE)]
    /\ UNCHANGED <<derives, files, run, adbInput, adbTrace, db, cases, artifacts, custodyLogs, logOrder,
                   origin, keyCache, now, isRunning, connected, stage, nUpdates>>

----------------------------------------------------------------------------
(* Time *)

\* The clock advances in steps of half the time-to-live, so that a cached
\* key is seen younger than CACHE_TTL and exactly CACHE_TTL old.
TickStep == CACHE_TTL \div 2

Tick ==
    /\ now < MaxTicks * TickStep
    /\ now' = now + TickStep
    /\ lastOp' = [op |-> "tick", hmacKey |-> NoCall,
                  arg |-> Undefined, ret |-> Undefined]
    /\ UNCHANGED <<derives, files, run, adbInput, adbTrace, user, sessions, db, cases, artifacts,
                   custodyLogs, logOrder, origin, keyCache, isRunning, connected, stage,
                   nUpdates>>

----------------------------------------------------------------------------
(* Specifications *)

\* The state after construction, but for the string handed to the ADBBridge.
InitProgram ==
    /\ db = FALSE
    /\ cases = EmptyStore
    /\ artifacts = EmptyStore
    /\ custodyLogs = EmptyStore
    /\ logOrder = <<>>
    /\ origin = EmptyStore
    /\ keyCache = EmptyStore
    /\ now = 0
    /\ isRunning = FALSE
    /\ connected = FALSE
    /\ stage = [target |-> "idle", local |-> "idle"]
    /\ nUpdates = 0
    /\ user = Null
    /\ sessions = EmptyStore
    /\ adbTrace = <<>>
    /\ run = NoRun
    /\ files = EmptyStore
    /\ derives = [slot \in 1..MaxCalls |-> NoDerive]
    /\ lastOp = [op |-> "new", hmacKey |-> NoCall, arg |-> Undefined, ret |-> Undefined]

Init == InitProgram /\ adbInput = NoInput

\* The password the case wizard is given; Passwords are what later calls try.
WizardPasswords == {<<"pw", 1>>}

\* An id crypto.randomUUID() may give a new custody entry.
NewLogIds == RandomUUID(custodyLogs, LogIds)

CreateCaseNext(logIds) ==
    \E caseData \in CaseDataInputs, password \in WizardPasswords, logId \in logIds :
        CreateCase(caseData, password, logId)

UpdateCaseNext(inputs) == \E id \in CaseIds, upd \in inputs : UpdateCase(id, upd)

AddArtifactNext(logIds) ==
    \E c \in CaseIds, logId \in logIds :
        \E artifact \in ArtifactInputs(c), encryptionKey \in CallerKeys(c) :
            AddArtifact(artifact, encryptionKey, logId)

CreateCustodyLogNext(logIds) ==
    \E logData \in LogDataInputs, id \in logIds :
        \E hmacKey \in CallerHmacKeys(logData.caseId) :
            CreateCustodyLog(logData, hmacKey, id)

\* The hmacKey createCustodyLog was given for the stored entry with this id.
SignedWith(id) == logOrder[CHOOSE i \in 1..Len(logOrder) : logOrder[i].id = id].hmacKey

\* One change at a time: the stored entry is verified with every key its
\* caller can hold, an altered copy with the key that signed the entry.
VerifyCustodyLogIntegrityNext ==
    \E of \in DOMAIN custodyLogs :
        \/ \E hmacKey \in CallerHmacKeys(custodyLogs[of].caseId) :
               VerifyCustodyLogIntegrity(custodyLogs[of], hmacKey, of)
        \/ \E log \in Tampered(custodyLogs[of]) :
               VerifyCustodyLogIntegrity(log, SignedWith(of), of)

DeriveKeyForCaseNext ==
    \E c \in CaseIds, password \in Passwords \cup {Undefined} :
        DeriveKeyForCase(c, password)

GetKeyForCustodyLogNext ==
    \E c \in CaseIds, password \in Passwords \cup {Undefined} :
        GetKeyForCustodyLog(c, password)

VerifyPasswordNext ==
    \E c \in CaseIds, password \in Passwords \cup {Undefined} :
        VerifyPassword(c, password)

TargetStartNext(logIds) ==
    \E c \in CaseIds, d \in TargetDevices, password \in Passwords \cup {Undefined},
       logId \in logIds :
        TargetStartLogicalAcquisition(c, d, password, logId)

LocalStartNext(logIds) ==
    \E c \in CaseIds, logId \in logIds : LocalStartLogicalAcquisition(c, logId)

\* The custody ledger: ForensicDatabase and ReportGenerator.
LedgerNext ==
    \/ Initialize
    \/ CreateCaseNext(NewLogIds)
    \/ AddArtifactNext(NewLogIds)
    \/ CreateCustodyLogNext(NewLogIds)
    \/ UpdateCaseNext({[status |-> Str("completed")]})
    \/ \E c \in CaseIds : GetCustodyLogs(c)
    \/ VerifyCustodyLogIntegrityNext
    \/ \E c \in CaseIds, password \in Passwords : GenerateReport(c, password)

SpecLedger == Init /\ [][LedgerNext]_vars

\* The key manager over the case records, with the clock.
KeysNext ==
    \/ Initialize
    \/ CreateCaseNext(Least(NewLogIds))
    \/ UpdateCaseNext(UpdateInputs)
    \/ DeriveKeyForCaseNext
    \/ GetKeyForCustodyLogNext
    \/ VerifyPasswordNext
    \/ ClearCache
    \/ \E c \in CaseIds : ClearCaseKey(c)
    \/ Tick

SpecKeys == Init /\ [][KeysNext]_vars

LoginNext ==
    \E password \in Passwords, requestOk \in BOOLEAN :
        Login(DefaultExaminer.badgeNumber, password, requestOk)

\* The examiner's session beside the key manager, with the clock.
SessionNext ==
    \/ Initialize
    \/ CreateCaseNext(Least(NewLogIds))
    \/ DeriveKeyForCaseNext
    \/ ClearCache
    \/ LoginNext
    \/ Logout
    \/ CheckSession
    \/ Tick

SpecSession == Init /\ [][SessionNext]_vars

\* The characters the strings handed to the bridge end with.
TailChars == {"d", "b", "A", ".", "/", " ", "-", ";"}

\* Every string of at most n of these characters.
Strings(chars, n) == UNION {[1..k -> chars] : k \in 0..n}

\* What the strings handed to the bridge begin with.
Heads ==
    {<<>>, RO, GETPROP, GETPROP_RO, PM_LIST_PACKAGES, SU_C_ID, LS_LA,
     SDCARD, STORAGE_EMULATED_0, DATA_DATA,
     <<"/", "d", "a", "t", "a", "/", "d", "a", "t", "a", "/", "a", ".", "b", "/", "d", "a", "t", "a", "b", "a", "s", "e", "s", "/">>,
     <<"/", "d", "a", "t", "a", "/", "d", "a", "t", "a", "/", "a", ".", "b", "/", "f", "i", "l", "e", "s", "/">>,
     <<"/", "e", "t", "c", "/">>}

GetpropModel == <<"g", "e", "t", "p", "r", "o", "p", " ", "r", "o", ".", "p", "r", "o", "d", "u", "c", "t", ".", "m", "o", "d", "e", "l">>
GetpropModelThenRm == <<"g", "e", "t", "p", "r", "o", "p", " ", "r", "o", ".", "p", "r", "o", "d", "u", "c", "t", ".", "m", "o", "d", "e", "l", ";", " ", "r", "m", " ", "-", "r", "f", " ", "/">>
SdcardEvidenceDb == <<"/", "s", "d", "c", "a", "r", "d", "/", "e", "v", "i", "d", "e", "n", "c", "e", ".", "d", "b">>
SdcardTraversal == <<"/", "s", "d", "c", "a", "r", "d", "/", ".", ".", "/", "e", "t", "c", "/", "p", "a", "s", "s", "w", "d">>

BridgeInputs ==
    {head \o tail : head \in Heads, tail \in Strings(TailChars, MaxTail)}
        \cup {GetpropModel, GetpropModelThenRm, SdcardEvidenceDb, SdcardTraversal}

\* A caller has a string for the bridge.
InitBridge == InitProgram /\ adbInput \in BridgeInputs

\* The two validators, on any string.
ValidatorsNext ==
    \/ ValidateCommand
    \/ ValidatePath

SpecValidators == InitBridge /\ [][ValidatorsNext]_vars

\* The operations of the bridge that callers have.
BridgeNext ==
    \/ \E transport \in Transports : ExecuteGetProp(transport)
    \/ \E transport \in Transports : ExecutePackageList(transport)
    \/ \E transport \in Transports : PullFile(transport)
    \/ \E transport \in Transports : ListDirectory(transport)
    \/ \E transport \in Transports, rooted \in BOOLEAN : CheckRootAccess(transport, rooted)
    \/ \E transport \in Transports, throwAt \in 0..Len(DeviceInfoProperties),
          rooted \in BOOLEAN : GetDeviceInfo(transport, throwAt, rooted)

SpecBridge == InitBridge /\ [][BridgeNext]_vars

\* The target engine with the handlers of the acquisition view, which can
\* run while a startLogicalAcquisition call waits.
EngineNext ==
    \/ Initialize
    \/ CreateCaseNext(Least(NewLogIds))
    \/ \E d \in TargetDevices : ConnectToDevice(d.serial)
    \/ \E c \in CaseIds, d \in TargetDevices, password \in Passwords \cup {Undefined} :
           TargetBegin(c, d, password)
    \/ TargetResume(Least(NewLogIds))
    \/ StopAcquisition

SpecEngine == Init /\ [][EngineNext]_vars

\* Everything that writes to a store through the database's operations,
\* with the key manager that hands out the keys.
StoresNext ==
    \/ Initialize
    \/ CreateCaseNext(Least(NewLogIds))
    \/ UpdateCaseNext({[status |-> Str("completed")]})
    \/ AddArtifactNext(Least(NewLogIds))
    \/ CreateCustodyLogNext(Least(NewLogIds))
    \/ DeriveKeyForCaseNext
    \/ GetKeyForCustodyLogNext
    \/ VerifyPasswordNext

SpecStores == Init /\ [][StoresNext]_vars

\* The key manager with its calls interleaved.
RacesNext ==
    \/ Initialize
    \/ CreateCaseNext(Least(NewLogIds))
    \/ \E c \in CaseIds, password \in Passwords : DeriveBegin(c, password)
    \/ \E slot \in 1..MaxCalls : DeriveResume(slot)
    \/ ClearCache
    \/ \E c \in CaseIds : ClearCaseKey(c)

SpecRaces == Init /\ [][RacesNext]_vars

\* The key startLogicalAcquisition of the target engine hands to its stages:
\* the one it derived from a password whose hash it found in the case record.
VerifiedKeys(caseId) ==
    IF Has(cases, caseId) /\ "encryptionSalt" \in DOMAIN cases[caseId]
    THEN {k \in {DeriveKey(p, cases[caseId].encryptionSalt) : p \in Passwords} :
             CalculateSHA256(k) = cases[caseId].passwordVerificationHash}
    ELSE {}

\* The stages, each with the keys it can be handed: the local engine passes
\* forensicCase.encryptionKey, a property no case record has.
StagesNext ==
    \/ Initialize
    \/ CreateCaseNext(Least(NewLogIds))
    \/ \E c \in CaseIds, data \in Payloads, logId \in Least(NewLogIds) :
           \E encryptionKey \in VerifiedKeys(c) :
               AcquireDeviceInfo(c, encryptionKey, data, logId)
    \/ \E c \in CaseIds, logId \in Least(NewLogIds) :
           \E encryptionKey \in VerifiedKeys(c) \cup {Undefined} :
               AcquireContacts(c, encryptionKey, logId)

SpecStages == Init /\ [][StagesNext]_vars

\* Everything that signs a custody entry, with the key manager that hands
\* out the keys.
SigningNext ==
    \/ Initialize
    \/ CreateCaseNext(Least(NewLogIds))
    \/ AddArtifactNext(Least(NewLogIds))
    \/ CreateCustodyLogNext(Least(NewLogIds))
    \/ DeriveKeyForCaseNext
    \/ GetKeyForCustodyLogNext
    \/ TargetStartNext(Least(NewLogIds))
    \/ LocalStartNext(Least(NewLogIds))

SpecSigning == Init /\ [][SigningNext]_vars

----------------------------------------------------------------------------
(* Properties *)

\* The key createCase derived for a case.
CaseKey(caseId) == DeriveKey(origin[caseId].password, origin[caseId].salt)

\* The case record still has the salt and the hash createCase gave it.
AsCreated(caseId) ==
    /\ Has(cases, caseId)
    /\ cases[caseId].encryptionSalt = origin[caseId].salt
    /\ cases[caseId].passwordVerificationHash = origin[caseId].hash

\* C1 (tamper detection).  Whenever verifyCustodyLogIntegrity(log, K') has
\* answered for a stored entry E that createCustodyLog signed with K, where log
\* is E or E with one signed field (id, caseId, action, examiner, timestamp,
\* details, deviceIdentifier) altered and K' is a key, the answer is true
\* exactly when log = E and K' = K: true for the entry as stored with its
\* key, false for every single-field change, false for every other key, and
\* true again for the unaltered entry after an altered copy was refused.
C1_TamperDetection ==
    (lastOp.op = "verifyCustodyLogIntegrity" /\ lastOp.arg[2] # Undefined) =>
        lastOp.ret = Bool(/\ lastOp.arg[1] = custodyLogs[lastOp.arg[3]]
                          /\ lastOp.arg[2] = SignedWith(lastOp.arg[3]))

\* A stored entry verifies with its key right after an altered copy of it
\* was verified with the same key.
C1_VerifiedAfterAlteredCopy ==
    /\ lastOp.op = "verifyCustodyLogIntegrity"
    /\ lastOp.ret = Bool(TRUE)
    /\ lastOp.arg[4]

\* A field value that is a password or a key derived from one.
Secret(v) == v[1] \in {"pw", "key"}

NoSecretIn(store) ==
    \A id \in DOMAIN store : \A f \in DOMAIN store[id] : ~Secret(store[id][f])

CaseRecordFields ==
    {"id", "name", "examiner", "status", "createdAt", "updatedAt",
     "encryptionSalt", "passwordVerificationHash"}

\* C2 (no key in storage).  In every reachable state no field of any record
\* of the cases, artifacts and custodyLogs stores is a password or a derived
\* key; the record createCase(caseData, P) has stored holds, besides the case
\* data, its id and its dates, only the salt and passwordVerificationHash =
\* SHA-256(deriveKey(P, salt)); and no call of deriveKeyForCase,
\* getKeyForCustodyLog or verifyPassword, the operations that read or fill
\* the key cache, changes a store.
C2_NoKeyPersisted ==
    /\ [](/\ NoSecretIn(cases)
          /\ NoSecretIn(artifacts)
          /\ NoSecretIn(custodyLogs)
          /\ (lastOp.op = "createCase" /\ lastOp.ret[1] = "created") =>
                LET forensicCase == cases[lastOp.arg[1]]
                IN  /\ forensicCase = lastOp.ret[2]
                    /\ DOMAIN forensicCase = CaseRecordFields
                    /\ forensicCase.passwordVerificationHash =
                           CalculateSHA256(DeriveKey(lastOp.arg[2],
                                                     forensicCase.encryptionSalt)))
    /\ [][lastOp'.op \in {"deriveKeyForCase", "getKeyForCustodyLog", "verifyPassword"}
              => UNCHANGED <<cases, artifacts, custodyLogs>>]_vars

\* A case has been updated, an artifact and a custody entry are stored and a
\* key is cached.
C2_StoresAndCacheFilled ==
    /\ nUpdates > 0
    /\ DOMAIN artifacts # {}
    /\ DOMAIN custodyLogs # {}
    /\ DOMAIN keyCache # {}

\* The keys passwords can derive.
CaseKeys == {DeriveKey(p, salt) : p \in Passwords, salt \in Salts}

\* C3 (only verified keys write).  The key addArtifact stored an artifact of
\* a case with, and the key every stored custody entry of a case was signed
\* with, is a key K with SHA-256(K) = the case's passwordVerificationHash, or
\* the signing key derived from such a K.
C3_VerifiedKeysOnly ==
    /\ (lastOp.op = "addArtifact" /\ lastOp.ret[1] = "artifact"
            /\ Has(cases, lastOp.arg[1])) =>
           CalculateSHA256(lastOp.arg[2]) =
               cases[lastOp.arg[1]].passwordVerificationHash
    /\ \A i \in 1..Len(logOrder) :
           LET caseId == custodyLogs[logOrder[i].id].caseId
           IN  Has(cases, caseId) =>
                   \E K \in CaseKeys :
                       /\ CalculateSHA256(K) = cases[caseId].passwordVerificationHash
                       /\ logOrder[i].hmacKey \in {K, SigningKey(K)}

\* C4 (password verification).  Whenever verifyPassword(caseId, p) has
\* answered, the answer is a boolean; for a case whose record has the salt
\* and hash createCase(caseData, P) gave it the answer is true when p = P and
\* false when p derives another key than P; and it is false when the case is
\* absent or its encryptionSalt or passwordVerificationHash is missing.
C4_VerifyPassword ==
    lastOp.op = "verifyPassword" =>
        LET caseId == lastOp.arg[1]
            p == lastOp.arg[2]
        IN  /\ lastOp.ret \in {Bool(TRUE), Bool(FALSE)}
            /\ (AsCreated(caseId) /\ p = origin[caseId].password) =>
                   lastOp.ret = Bool(TRUE)
            /\ (AsCreated(caseId) /\ p \in Passwords
                    /\ DeriveKey(p, origin[caseId].salt) # CaseKey(caseId)) =>
                   lastOp.ret = Bool(FALSE)
            /\ (\/ ~Has(cases, caseId)
                \/ Falsy(cases[caseId].encryptionSalt)
                \/ Falsy(cases[caseId].passwordVerificationHash)) =>
                   lastOp.ret = Bool(FALSE)

\* verifyPassword has accepted the password of a case as createCase stored it.
C4_PasswordAccepted ==
    /\ lastOp.op = "verifyPassword"
    /\ lastOp.ret = Bool(TRUE)
    /\ AsCreated(lastOp.arg[1])
    /\ lastOp.arg[2] = origin[lastOp.arg[1]].password

\* C5 (verifyPassword has no effect).  A call of verifyPassword, whatever it
\* answers, leaves every case record, the key cache and the other stores as
\* they were.
C5_VerifyPasswordChangesNothing ==
    [][lastOp'.op = "verifyPassword" =>
           UNCHANGED <<cases, keyCache, artifacts, custodyLogs>>]_vars

\* verifyPassword has accepted a password and no key of the case is cached.
C5_AcceptedAndNothingCached ==
    /\ lastOp.op = "verifyPassword"
    /\ lastOp.ret = Bool(TRUE)
    /\ ~Has(keyCache, lastOp.arg[1])

\* C6 (entries are signed with the signing subkey).  Whatever createCase,
\* addArtifact and the two engines' startLogicalAcquisition hand to
\* createCustodyLog as hmacKey is HMAC('hmac_key_derivation', K) for the key
\* K of the case: never K itself, never an absent key.
C6_SignedWithSubkey ==
    (/\ lastOp.op \in {"createCase", "addArtifact", "target.startLogicalAcquisition",
                       "local.startLogicalAcquisition"}
     /\ lastOp.hmacKey # NoCall) =>
        lastOp.hmacKey = SigningKey(CaseKey(lastOp.arg[1]))

\* C7 (append-only ledger).  Every step of createCase, updateCase,
\* addArtifact, createCustodyLog, getCustodyLogs, verifyCustodyLogIntegrity
\* and generateReport leaves each stored custody entry in the store with every
\* field as it was, and no case ends with fewer entries than it had.
C7_AppendOnly ==
    [][/\ \A id \in DOMAIN custodyLogs :
              /\ id \in DOMAIN custodyLogs'
              /\ custodyLogs'[id] = custodyLogs[id]
       /\ \A c \in CaseIds :
              Cardinality({id \in DOMAIN custodyLogs' : custodyLogs'[id].caseId = c})
                  >= Cardinality({id \in DOMAIN custodyLogs : custodyLogs[id].caseId = c})
      ]_vars

\* A second entry has been appended and both are in the store.
C7_TwoEntriesKept ==
    /\ Len(logOrder) >= 2
    /\ \A i \in 1..Len(logOrder) : logOrder[i].id \in DOMAIN custodyLogs
    /\ lastOp.op \in {"createCase", "addArtifact", "createCustodyLog"}
    /\ lastOp.hmacKey # NoCall

\* The stored entries of a case in the order createCustodyLog stored them.
InCreationOrder(caseId) ==
    LET mine == SelectSeq(logOrder, LAMBDA e : custodyLogs[e.id].caseId = caseId)
    IN  [i \in 1..Len(mine) |-> custodyLogs[mine[i].id]]

\* C8 (creation order).  What getCustodyLogs(caseId) returns is the entries
\* of that case, each once, the one created earlier before the one created
\* later.
C8_CreationOrder ==
    (lastOp.op = "getCustodyLogs" /\ lastOp.ret[1] = "list") =>
        lastOp.ret[2] = InCreationOrder(lastOp.arg)

\* C9 (atomic append).  In every reachable state, whatever calls have
\* failed, every entry in the custodyLogs store carries a signature that is
\* neither empty nor missing and is the HMAC of the entry's own fields under
\* the key createCustodyLog was given for it.
C9_StoredEntriesSigned ==
    \A id \in DOMAIN custodyLogs :
        /\ ~Falsy(custodyLogs[id].hmacSignature)
        /\ \E i \in 1..Len(logOrder) :
               /\ logOrder[i].id = id
               /\ custodyLogs[id].hmacSignature =
                      CalculateHMAC(DataToSign(custodyLogs[id]), logOrder[i].hmacKey)

\* createCustodyLog has failed while the store holds an entry.
C9_FailedBesideStoredEntry ==
    /\ lastOp.op = "createCustodyLog"
    /\ IsError(lastOp.ret)
    /\ DOMAIN custodyLogs # {}

PasswordRequired == Err("Password required to access case encryption key")

\* C10 (cache expiry).  While the key cached for a case at time T has age
\* now - T < CACHE_TTL, getKeyForCustodyLog(caseId) without a password returns
\* it; once now - T >= CACHE_TTL, getKeyForCustodyLog(caseId) without a
\* password fails with 'Password required' and leaves the cache as it is, and
\* deriveKeyForCase(caseId, password) returns the key derived from the
\* password it is given and the case's salt and caches it with timestamp now.
C10_CacheExpiry ==
    [][\A c \in DOMAIN keyCache :
           LET expired == now - keyCache[c].timestamp >= CACHE_TTL
           IN  /\ (lastOp'.op = "getKeyForCustodyLog" /\ lastOp'.arg = <<c, Undefined>>) =>
                      /\ keyCache' = keyCache
                      /\ lastOp'.ret = IF expired THEN PasswordRequired
                                       ELSE keyCache[c].key
               /\ (/\ expired
                   /\ lastOp'.op = "deriveKeyForCase"
                   /\ lastOp'.arg[1] = c
                   /\ lastOp'.arg[2] \in Passwords
                   /\ ~Falsy(cases[c].encryptionSalt)) =>
                      LET key == DeriveKey(lastOp'.arg[2], cases[c].encryptionSalt)
                      IN  /\ lastOp'.ret = key
                          /\ keyCache'[c] = [key |-> key, timestamp |-> now]
      ]_vars

\* getKeyForCustodyLog has asked for the password of a case whose key is
\* still in the cache, CACHE_TTL or more after it was cached.
C10_ExpiredKeyRefused ==
    /\ lastOp.op = "getKeyForCustodyLog"
    /\ lastOp.ret = PasswordRequired
    /\ Has(keyCache, lastOp.arg[1])
    /\ now - keyCache[lastOp.arg[1]].timestamp >= CACHE_TTL

\* C11 (eviction).  A clearCaseKey(c) step leaves no key for c in the cache
\* and every other case's cached key as it was; a clearCache() step leaves
\* no key at all; and the call made directly after either, for an evicted
\* case c, answers without the evicted key: getKeyForCustodyLog(c) without a
\* password fails with 'Password required', deriveKeyForCase(c, p) returns
\* deriveKey(p, salt of c).
C11_Eviction ==
    [][/\ lastOp'.op = "clearCaseKey" =>
              /\ DOMAIN keyCache' = DOMAIN keyCache \ {lastOp'.arg}
              /\ \A d \in DOMAIN keyCache' : keyCache'[d] = keyCache[d]
       /\ lastOp'.op = "clearCache" => keyCache' = EmptyStore
       /\ \A c \in CaseIds :
              (\/ lastOp.op = "clearCache"
               \/ lastOp.op = "clearCaseKey" /\ lastOp.arg = c) =>
                  /\ (lastOp'.op = "getKeyForCustodyLog"
                          /\ lastOp'.arg = <<c, Undefined>>) =>
                         lastOp'.ret = PasswordRequired
                  /\ (/\ lastOp'.op = "deriveKeyForCase"
                      /\ lastOp'.arg[1] = c
                      /\ lastOp'.arg[2] \in Passwords
                      /\ Has(cases, c)
                      /\ ~Falsy(cases[c].encryptionSalt)) =>
                         lastOp'.ret = DeriveKey(lastOp'.arg[2], cases[c].encryptionSalt)
      ]_vars

\* clearCaseKey has evicted one case and the key of another is still cached.
C11_OneEvictedOtherKept ==
    /\ lastOp.op = "clearCaseKey"
    /\ ~Has(keyCache, lastOp.arg)
    /\ DOMAIN keyCache # {}

\* The step that made this state ended the examiner's session: logout(), or
\* a checkSession() that found the session missing or timed out.
SessionEnded ==
    /\ lastOp.op \in {"logout", "checkSession"}
    /\ lastOp.arg[1] # Null
    /\ user = Null

\* C12 (session end clears the keys).  When the examiner's session ends, by
\* logout() or by checkSession() finding the session missing or timed out,
\* no derived key of any case is held in the key cache.
C12_SessionEndClearsKeys == SessionEnded => keyCache = EmptyStore

\* C13 (getKeyForCustodyLog).  getKeyForCustodyLog(c, password) returns the
\* cached key of c when one is present and fresh; otherwise, without a
\* password it fails with 'Password required' and leaves the cache
\* unchanged, and with a password it derives the key from that password and
\* the salt of c and caches it; it never returns normally without a key.
C13_GetKeyForCustodyLog ==
    [][lastOp'.op = "getKeyForCustodyLog" =>
          LET c == lastOp'.arg[1]
              password == lastOp'.arg[2]
          IN  /\ lastOp'.ret[1] \in {"key", "error"}
              /\ IF Has(keyCache, c) /\ now - keyCache[c].timestamp < CACHE_TTL
                 THEN lastOp'.ret = keyCache[c].key /\ keyCache' = keyCache
                 ELSE IF password = Undefined
                 THEN lastOp'.ret = PasswordRequired /\ keyCache' = keyCache
                 ELSE (db /\ Has(cases, c) /\ ~Falsy(cases[c].encryptionSalt)) =>
                          LET key == DeriveKey(password, cases[c].encryptionSalt)
                          IN  /\ lastOp'.ret = key
                              /\ keyCache' = CacheSet(keyCache, c, key, now)
      ]_vars

\* getKeyForCustodyLog was given a password for a case whose cached key had
\* expired, and has derived and cached the key anew.
C13_DerivedAndCached ==
    /\ lastOp.op = "getKeyForCustodyLog"
    /\ lastOp.arg[2] \in Passwords
    /\ lastOp.ret[1] = "key"
    /\ now >= CACHE_TTL
    /\ Has(keyCache, lastOp.arg[1])
    /\ keyCache[lastOp.arg[1]] = [key |-> lastOp.ret, timestamp |-> now]

\* C14 (deriveKeyForCase failures).  On an initialised database
\* deriveKeyForCase(c, p) fails with 'Case not found' when no case record has
\* id c, and with 'Case encryption salt not found' when the record has no
\* salt; both failures leave the cache unchanged and occur whatever the cache
\* holds under c, a fresh key included.
C14_DeriveKeyFailures ==
    [][(lastOp'.op = "deriveKeyForCase" /\ db) =>
          LET c == lastOp'.arg[1]
          IN  /\ ~Has(cases, c) =>
                     lastOp'.ret = Err("Case not found") /\ keyCache' = keyCache
              /\ (Has(cases, c) /\ cases[c].encryptionSalt \in {Undefined, Str("")}) =>
                     /\ lastOp'.ret = Err("Case encryption salt not found")
                     /\ keyCache' = keyCache
      ]_vars

\* deriveKeyForCase has failed for want of a salt while a fresh key of that
\* case is in the cache.
C14_NoSaltBesideFreshKey ==
    /\ lastOp.op = "deriveKeyForCase"
    /\ lastOp.ret = Err("Case encryption salt not found")
    /\ Has(keyCache, lastOp.arg[1])
    /\ now - keyCache[lastOp.arg[1]].timestamp < CACHE_TTL

\* The ways to cut a string in two, and in three.
Cuts2(s) == {<<SubSeq(s, 1, i), SubSeq(s, i + 1, Len(s))>> : i \in 0..Len(s)}
Cuts3(s) ==
    {<<SubSeq(s, 1, i), SubSeq(s, i + 1, j), SubSeq(s, j + 1, Len(s))>> :
        i \in 0..Len(s), j \in 0..Len(s)}

NonEmptyOver(s, chars) == s # <<>> /\ \A i \in DOMAIN s : s[i] \in chars

\* The four whitelisted command shapes.
WhitelistedCommand(command) ==
    \/ \E c \in Cuts2(command) : c[1] = GETPROP_RO /\ NonEmptyOver(c[2], PropChars)
    \/ command = PM_LIST_PACKAGES
    \/ \E c \in Cuts3(command) :
          /\ c[1] = PM_LIST_PACKAGES
          /\ NonEmptyOver(c[2], Whitespace)
          /\ Len(c[3]) = 2 /\ c[3][1] = "-" /\ c[3][2] \in Lower
    \/ command = SU_C_ID
    \/ \E c \in Cuts2(command) : c[1] = LS_LA /\ NonEmptyOver(c[2], PathChars)

\* C15 (validateCommand).  validateCommand accepts a string exactly when the
\* whole string has one of the four whitelisted shapes (getprop ro.<name>,
\* pm list packages with an optional single-letter flag, su -c "id",
\* ls -la <path>) and holds none of the forbidden characters; every other
\* string is rejected by throwing.  "getprop ro.product.model" is accepted,
\* "getprop ro.product.model; rm -rf /" is rejected.
C15_ValidateCommand ==
    lastOp.op = "validateCommand" =>
        /\ lastOp.ret = Accepted <=>
               (WhitelistedCommand(adbInput) /\ \A i \in DOMAIN adbInput :
                                                   adbInput[i] \notin DangerousChars)
        /\ lastOp.ret # Accepted => lastOp.ret[1] = "error"
        /\ adbInput = GetpropModel => lastOp.ret = Accepted
        /\ adbInput = GetpropModelThenRm => lastOp.ret[1] = "error"

\* validateCommand has rejected a whitelisted command with a second command
\* appended to it.
C15_InjectionRejected ==
    /\ lastOp.op = "validateCommand"
    /\ adbInput = GetpropModelThenRm
    /\ lastOp.ret[1] = "error"

\* The four anchored path shapes.
AllowedPathShape(path) ==
    \/ \E c \in Cuts2(path) :
          c[1] \in {SDCARD, STORAGE_EMULATED_0} /\ NonEmptyOver(c[2], PathChars)
    \/ \E c \in Cuts3(path) : \E d \in Cuts2(c[3]) :
          /\ c[1] = DATA_DATA
          /\ NonEmptyOver(c[2], PropChars) /\ c[2][1] \in Lower
          /\ \/ /\ d[1] = DATABASES
                /\ \E n \in Cuts2(d[2]) : NonEmptyOver(n[1], NameChars) /\ n[2] = DOT_DB
             \/ /\ d[1] = FILES
                /\ NonEmptyOver(d[2], PathChars)

\* C16 (validatePath).  validatePath rejects every path that holds '..' and
\* every path that holds a forbidden character, and accepts any other path
\* exactly when the whole path has one of the four shapes (/sdcard/...,
\* /storage/emulated/0/..., /data/data/<package>/databases/<name>.db with no
\* further directory, /data/data/<package>/files/...).  "/sdcard/evidence.db"
\* is accepted, "/sdcard/../etc/passwd" is rejected.
C16_ValidatePath ==
    lastOp.op = "validatePath" =>
        /\ lastOp.ret = Accepted <=>
               /\ \A i \in 1..(Len(adbInput) - 1) : <<adbInput[i], adbInput[i + 1]>> # <<".", ".">>
               /\ \A i \in DOMAIN adbInput : adbInput[i] \notin DangerousChars
               /\ AllowedPathShape(adbInput)
        /\ lastOp.ret # Accepted => lastOp.ret[1] = "error"
        /\ adbInput = SdcardEvidenceDb => lastOp.ret = Accepted
        /\ adbInput = SdcardTraversal => lastOp.ret[1] = "error"

\* validatePath has rejected a path that climbs out of /sdcard.
C16_TraversalRejected ==
    /\ lastOp.op = "validatePath"
    /\ adbInput = SdcardTraversal
    /\ lastOp.ret = Err("Security: Path traversal not allowed")

\* C17 (validation before transport).  In every call of the bridge a command
\* is handed to the transport only after validateCommand has accepted that
\* very string, a remote path is handed to the transport by pullFile only
\* after validatePath has accepted it, and a rejection ends the call: the
\* rejected string is not sent and nothing is validated or sent after it.
C17_ValidatedBeforeSent ==
    \A i \in DOMAIN adbTrace :
        LET e == adbTrace[i]
        IN  /\ EventOf(e) = "executeCommand" =>
                   /\ \E j \in 1..(i - 1) :
                          adbTrace[j] = Event("validateCommand", TextOf(e), TRUE)
                   /\ ValidateCommandCall(TextOf(e)) = Accepted
            /\ EventOf(e) = "pullFile" =>
                   /\ \E j \in 1..(i - 1) :
                          adbTrace[j] = Event("validatePath", TextOf(e), TRUE)
                   /\ ValidatePathCall(TextOf(e)) = Accepted
            /\ (EventOf(e) \in {"validateCommand", "validatePath"} /\ ~OkOf(e)) =>
                   /\ i = Len(adbTrace)
                   /\ lastOp.ret[1] \in {"error", "lines"}
                   /\ \A k \in DOMAIN adbTrace :
                          EventOf(adbTrace[k]) \in {"executeCommand", "pullFile"} =>
                              TextOf(adbTrace[k]) # TextOf(e)

\* pullFile was given a path that climbs out of /sdcard and has stopped at
\* the validator's rejection.
C17_RejectedPathNotPulled ==
    /\ lastOp.op = "pullFile"
    /\ adbInput = SdcardTraversal
    /\ adbTrace = <<Event("validatePath", SdcardTraversal, FALSE)>>
    /\ lastOp.ret[1] = "error"

Plaintext(encrypted) == encrypted[2]

\* C21: whenever a stage of either engine stores an artifact record, the file
\* at the record's filePath is then the ciphertext encrypt made of some text,
\* the record's sha256 and md5 are the digests of that text (not of the
\* ciphertext) and its size is the length of that text.
C21_PlaintextDigests ==
    [][\A id \in DOMAIN artifacts' \ DOMAIN artifacts :
          LET a == artifacts'[id]
              file == files'[a.filePath]
          IN  /\ Has(files', a.filePath)
              /\ file[1] = "aes"
              /\ a.sha256 = CalculateSHA256(Plaintext(file))
              /\ a.md5 = CalculateMD5(Plaintext(file))
              /\ a.size = Length(Plaintext(file))
              /\ a.sha256 # CalculateSHA256(file)
              /\ a.md5 # CalculateMD5(file)]_vars

\* acquireDeviceInfo has stored a record of the longer payload, and the file
\* it names is there.
C21_DeviceInfoStored ==
    /\ lastOp.op = "target.acquireDeviceInfo"
    /\ \E id \in DOMAIN artifacts :
          /\ artifacts[id].type = Str("device_info")
          /\ artifacts[id].size = <<"num", 6>>
          /\ Has(files, artifacts[id].filePath)

\* The IV of a ciphertext ForensicCrypto.encrypt returned.
IVOf(encrypted) == encrypted[4]

\* C22: every stored artifact record with isEncrypted = true has an iv
\* property, and it is the IV encrypt generated for the ciphertext in the
\* file at the record's filePath.
C22_RecordCarriesIV ==
    \A id \in DOMAIN artifacts :
        LET a == artifacts[id]
        IN  a.isEncrypted = Bool(TRUE) =>
                /\ "iv" \in DOMAIN a
                /\ Has(files, a.filePath) => a.iv = IVOf(files[a.filePath])

\* C23: every case createCase stored still has the id, the encryptionSalt and
\* the passwordVerificationHash createCase wrote, whatever createCase,
\* updateCase, verifyPassword and deriveKeyForCase calls came after.
C23_CryptoMaterialFixed ==
    \A c \in DOMAIN origin :
        /\ AsCreated(c)
        /\ cases[c].id = c

\* C24: the ledger of a case createCase has just created is its case_created
\* entry alone, and a startLogicalAcquisition call of either engine that got
\* as far as its first createCustodyLog call has appended its
\* *acquisition_started entry to the ledger of its case, as the latest entry.
C24_WellFormedLedger ==
    /\ (lastOp.op = "createCase" /\ lastOp.ret[1] = "created") =>
           LET mine == InCreationOrder(lastOp.arg[1])
           IN  /\ Len(mine) = 1
               /\ mine[1].action = Str("case_created")
    /\ (/\ lastOp.op \in {"target.startLogicalAcquisition", "local.startLogicalAcquisition"}
        /\ lastOp.hmacKey # NoCall) =>
           LET mine == InCreationOrder(lastOp.arg[1])
           IN  /\ Len(mine) > 1
               /\ mine[1].action = Str("case_created")
               /\ mine[Len(mine)].action \in {Str("target_acquisition_started"),
                                              Str("acquisition_started")}

\* C25: generateReport(caseId, P) with the password P of the case returns a
\* report in which every ledger entry of the case that was signed with the
\* signing key of the case (as createCase and addArtifact sign) and is stored
\* as written has isVerified = true; with another password it throws
\* 'Invalid password'.
C25_ReportVerifiesLedger ==
    (/\ lastOp.op = "generateReport"
     /\ db
     /\ Has(cases, lastOp.arg[1])
     /\ Has(origin, lastOp.arg[1])) =>
        LET caseId == lastOp.arg[1]
            report == lastOp.ret
        IN  IF lastOp.arg[2] = origin[caseId].password
            THEN /\ report[1] = "report"
                 /\ \A i \in 1..Len(report[4]) :
                        SignedWith(report[4][i].id) = SigningKey(CaseKey(caseId)) =>
                            report[4][i].isVerified = Bool(TRUE)
            ELSE report = Err("Invalid password")

\* C26: deriveKeyForCase(caseId, P) with the password P of a case whose
\* record is as createCase wrote it returns deriveKey(P, salt), the key whose
\* SHA-256 is the passwordVerificationHash of the case, whatever the key
\* cache held when it was called.
C26_CorrectPasswordCorrectKey ==
    (/\ lastOp.op = "deriveKeyForCase"
     /\ db
     /\ Has(origin, lastOp.arg[1])
     /\ AsCreated(lastOp.arg[1])
     /\ lastOp.arg[2] = origin[lastOp.arg[1]].password) =>
        /\ lastOp.ret = CaseKey(lastOp.arg[1])
        /\ CalculateSHA256(lastOp.ret) = cases[lastOp.arg[1]].passwordVerificationHash

\* C27: when a deriveKeyForCase(c, p) call goes on directly after a
\* clearCache() or clearCaseKey(c) that ran while it waited, and no call waits
\* any more, the cache holds no key for c; and a deriveKeyForCase call that
\* found no fresh key when it began and waited beside a call for the same
\* case with another password returns the key derived from its own password.
C27_EvictionAndOverlap ==
    (lastOp.op = "deriveKeyForCase.resume" /\ lastOp.ret[1] = "key") =>
        /\ (lastOp.arg[5] /\ Waiting = {}) => ~Has(keyCache, lastOp.arg[1])
        /\ (lastOp.arg[3] /\ ~lastOp.arg[4]) =>
               lastOp.ret = DeriveKey(lastOp.arg[2], cases[lastOp.arg[1]].encryptionSalt)

\* C28: between addArtifact calls, every record of the artifacts store
\* belongs to an existing case and has an artifact_added entry of that case
\* in the ledger that names it.
C28_ArtifactsAccounted ==
    \A id \in DOMAIN artifacts :
        LET a == artifacts[id]
        IN  /\ Has(cases, a.caseId)
            /\ \E l \in DOMAIN custodyLogs :
                   /\ custodyLogs[l].caseId = a.caseId
                   /\ custodyLogs[l].action = Str("artifact_added")
                   /\ custodyLogs[l].details = <<"text", "Artifact added", a.name, a.type>>

\* C29: when a startLogicalAcquisition call of the target engine has ended,
\* in whatever way, isRunning is false and the bridge is disconnected.
C29_RunEndsStopped ==
    (lastOp.op = "target.resume" /\ run.at = "idle") =>
        /\ ~isRunning
        /\ ~connected

\* C30: a string that fully matches a whitelisted command shape or an allowed
\* path shape holds none of the forbidden characters; for a path validatePath
\* accepts, validateCommand accepts 'ls -la ' followed by the path; and a
\* listDirectory call either ends at the rejection of validatePath or has
\* validateCommand accept its command, so that no validator rejection is
\* caught by its catch block.
C30_ValidatorsConsistent ==
    /\ (ALLOWED_COMMANDS(adbInput) \/ ALLOWED_PATH_PATTERNS(adbInput)) =>
           ~HasCharIn(adbInput, DangerousChars)
    /\ ValidatePathCall(adbInput) = Accepted =>
           ValidateCommandCall(LS_LA \o adbInput) = Accepted
    /\ lastOp.op = "listDirectory" =>
           \/ /\ adbTrace = <<Event("validatePath", adbInput, FALSE)>>
              /\ lastOp.ret[1] = "error"
           \/ /\ Len(adbTrace) >= 2
              /\ adbTrace[1] = Event("validatePath", adbInput, TRUE)
              /\ adbTrace[2] = Event("validateCommand", LS_LA \o adbInput, TRUE)
              /\ lastOp.ret[1] = "lines"

\* listDirectory was given a path with an upper-case letter that validatePath
\* accepts, and its command has reached the transport.
C30_ListedAcceptedPath ==
    /\ lastOp.op = "listDirectory"
    /\ HasCharIn(adbInput, Upper)
    /\ ValidatePathCall(adbInput) = Accepted
    /\ \E i \in DOMAIN adbTrace :
           adbTrace[i] = Event("executeCommand", LS_LA \o adbInput, TRUE)

====
